---- MODULE Spec2Model ----
(***************************************************************************)
(* NepidemiX: the simulation stepping engine (Simulation.execute) driving  *)
(* a ScriptedProcess on a small network.                                   *)
(*                                                                         *)
(* Representation.                                                         *)
(*  - An attribute dictionary is a function from attribute names to       *)
(*    values (strings).                                                    *)
(*  - A state key (a Python frozenset of (attribute, value) items) is a    *)
(*    set of pairs <<attribute, sv>>, where sv records whether the value   *)
(*    is a bare value or a tuple of values: [tuple |-> FALSE, v |-> <<x>>] *)
(*    or [tuple |-> TRUE, v |-> <<x, y, ...>>].                            *)
(*  - A LinkedCounter is a record [counter, linkedCounters]; the objects   *)
(*    of one state_count dictionary live in one heap region and links are  *)
(*    the keys of the linked objects in the same region.  Two dictionaries *)
(*    that share their objects name the same region.                       *)
(*  - Probabilities are counted in units of 1/ProbOne, time in ticks.      *)
(***************************************************************************)
EXTENDS Integers, Sequences, FiniteSets, TLC

\* ------------------------------------------------------------------ bounds
NumNodes == 3
MaxIterations == 2

\* ------------------------------------------------------- model parameters
\* The samples numpy.random.random_sample() returns, a value in [0, 1), in
\* units of 1/ProbOne: 0 and one half.
Draws == {0, 1}
ProbOne == Cardinality(Draws)
\* The values of dt the simulation is configured with, in ticks.
TimeSteps == {1, 2}

Nodes == 1..NumNodes

\* ------------------------------------------------------------- sequences
RECURSIVE SeqSum(_)
SeqSum(s) == IF s = <<>> THEN 0 ELSE Head(s) + SeqSum(Tail(s))

Range(s) == {s[i] : i \in DOMAIN s}

\* --------------------------------------------------- states and partial specs
Single(x) == [tuple |-> FALSE, v |-> <<x>>]
Tuple(xs) == [tuple |-> TRUE, v |-> xs]

\* The [NodeAttributes] section: attribute names with their value tuples, in
\* the iteration order of the dictionary.
nodeAttributeDict == << [att |-> "status", vals |-> <<"S", "I", "R">>] >>

\* frozenset(d.iteritems()) for an attribute dictionary d of bare values.
deduceNodeState(attrs) == {<<a, Single(attrs[a])>> : a \in DOMAIN attrs}

HasKey(spec, a) == \E p \in spec : p[1] = a
Lookup(spec, a) == (CHOOSE p \in spec : p[1] = a)[2]

\* The values attribute number i of the reference dictionary ranges over in
\* the expansion of spec: the spec's own value(s), or the whole domain.
ExpandValues(spec, ref, i) ==
    IF HasKey(spec, ref[i].att) THEN Lookup(spec, ref[i].att).v
    ELSE ref[i].vals

\* One round of the loop over the reference dictionary: every dictionary of
\* stlist is copied once for every value c, values outermost.
RECURSIVE Extend(_, _, _)
Extend(stlist, a, vals) ==
    IF vals = <<>> THEN <<>>
    ELSE [i \in DOMAIN stlist |-> stlist[i] \cup {<<a, Single(Head(vals))>>}]
         \o Extend(stlist, a, Tail(vals))

RECURSIVE ExpandFrom(_, _, _, _)
ExpandFrom(stlist, spec, ref, i) ==
    IF i > Len(ref) THEN stlist
    ELSE ExpandFrom(Extend(stlist, ref[i].att, ExpandValues(spec, ref, i)),
                    spec, ref, i + 1)

\* ScriptedProcess._createAllPossibleSets: the key of the spec as given and
\* the list of full states it expands to.
createAllPossibleSets(spec, ref) ==
    [oset |-> spec, stlist |-> ExpandFrom(<< {} >>, spec, ref, 1)]

\* ------------------------------------------------------------ matching
\* Strings that can precede or follow a value inside another value: none,
\* or the rest of a value that begins or ends with another value.
Affixes == {"", "I", "R"}
\* Python's `x in s` for two strings.
StrContains(s, x) == \E p \in Affixes, q \in Affixes : p \o x \o q = s

\* Python's `x in v`, v a tuple of values or a bare string.
ValueIn(x, sv) ==
    IF sv.tuple THEN \E i \in DOMAIN sv.v : sv.v[i] = x
    ELSE StrContains(sv.v[1], x)

matchSetAttributes(vdict, vset) ==
    \A p \in vset : p[1] \in DOMAIN vdict /\ ValueIn(vdict[p[1]], p[2])

\* vdict1 is a dictionary of bare values here.
matchDictAttributes(vdict0, vdict1) ==
    \A k \in DOMAIN vdict1 : k \in DOMAIN vdict0 /\ vdict0[k] = vdict1[k]

\* node: the attribute dictionaries of the nodes the iterator yields.
entityCountSet(node, over, attributeSet) ==
    Cardinality({n \in over : matchSetAttributes(node[n], attributeSet)})

entityCountDict(node, over, attributeDict) ==
    Cardinality({n \in over : matchDictAttributes(node[n], attributeDict)})

\* ------------------------------------------------------- LinkedCounter
LinkedCounter(initval, listenerList) ==
    [counter |-> initval, linkedCounters |-> listenerList]

EmptyDict == <<>>

\* The linked counters of a counter are objects of the same dictionary d and
\* are named by their keys.
RECURSIVE AddToLinked(_, _, _)
AddToLinked(d, links, other) ==
    IF links = <<>> THEN d
    ELSE AddToLinked([d EXCEPT ![Head(links)].counter = @ + other],
                     Tail(links), other)

\* An addition that the linked counters pass on to their own linked counters.
RECURSIVE AddThrough(_, _, _, _)
AddThrough(d, links, other, depth) ==
    IF links = <<>> \/ depth = 0 THEN d
    ELSE LET c == Head(links)
             d1 == [d EXCEPT ![c].counter = @ + other]
             d2 == AddThrough(d1, d[c].linkedCounters, other, depth - 1)
         IN  AddThrough(d2, Tail(links), other, depth)

iaddTransitive(d, k, other) ==
    AddThrough([d EXCEPT ![k].counter = @ + other], d[k].linkedCounters,
               other, Cardinality(DOMAIN d))

\* An addition that stays in the counter itself.
iaddUnlinked(d, k, other) == [d EXCEPT ![k].counter = @ + other]

\* LinkedCounter.__iadd__ on the object stored under key k.
iadd(d, k, other) ==
    AddToLinked([d EXCEPT ![k].counter = @ + other],
                d[k].linkedCounters, other)

\* LinkedCounter.__isub__ on the object stored under key k.
isub(d, k, other) ==
    AddToLinked([d EXCEPT ![k].counter = @ - other],
                d[k].linkedCounters, 0 - other)

\* The loop of LinkedCounter.set over the linked counters.
RECURSIVE SetLinked(_, _, _)
SetLinked(d, links, value) ==
    IF links = <<>> THEN d
    ELSE SetLinked([d EXCEPT ![Head(links)].counter = value],
                   Tail(links), value)

\* A set that reaches the linked counters whatever broadcast says.
setBroadcastAlways(d, k, value, broadcast) ==
    SetLinked([d EXCEPT ![k].counter = value], d[k].linkedCounters, value)

\* LinkedCounter.set on the object stored under key k.
set(d, k, value, broadcast) ==
    IF broadcast
    THEN SetLinked([d EXCEPT ![k].counter = value], d[k].linkedCounters, value)
    ELSE [d EXCEPT ![k].counter = value]

\* ---------------------------------- ScriptedProcess.initializeNetwork
\* The loop body over allsets: link an existing leaf counter to the
\* listeners l, or create it with the number of matching nodes.
RECURSIVE InitLeaves(_, _, _, _)
InitLeaves(d, allsets, l, node) ==
    IF allsets = <<>> THEN d
    ELSE LET k == Head(allsets)
             nns == entityCountSet(node, DOMAIN node, k)
             d1 == IF k \in DOMAIN d
                   THEN [d EXCEPT ![k].linkedCounters = @ \o l]
                   ELSE d @@ (k :> LinkedCounter(nns, l))
         IN  InitLeaves(d1, Tail(allsets), l, node)

\* The loop body over the declared mean field states, ref being
\* self.nodeAttributeDict.
InitMeanFieldOver(d, s, node, ref) ==
    LET e == createAllPossibleSets(s, ref)
        many == Len(e.stlist) > 1
        l == IF many THEN <<e.oset>> ELSE <<>>
        d1 == IF many THEN d @@ (e.oset :> LinkedCounter(0, <<>>)) ELSE d
        d2 == InitLeaves(d1, e.stlist, l, node)
        osnns == entityCountSet(node, DOMAIN node, e.oset)
    IN  IF e.oset \in DOMAIN d THEN d
        ELSE IF many THEN [d2 EXCEPT ![e.oset].counter = osnns]
        ELSE d2

InitMeanField(d, s, node) == InitMeanFieldOver(d, s, node, nodeAttributeDict)

RECURSIVE InitMeanFieldsOver(_, _, _, _)
InitMeanFieldsOver(d, mfs, node, ref) ==
    IF mfs = <<>> THEN d
    ELSE InitMeanFieldsOver(InitMeanFieldOver(d, Head(mfs), node, ref),
                            Tail(mfs), node, ref)

RECURSIVE InitMeanFields(_, _, _)
InitMeanFields(d, mfs, node) ==
    IF mfs = <<>> THEN d
    ELSE InitMeanFields(InitMeanField(d, Head(mfs), node), Tail(mfs), node)

\* The state_count dictionary after initializeNetwork, starting from the
\* empty dictionary Simulation.configure creates.
initializeNetwork(mfs, node) == InitMeanFields(EmptyDict, mfs, node)

\* ------------------------------------------- ScriptedProcess._createRuleDict
RECURSIVE AddRule(_, _, _)
AddRule(tmpRules, fromStateList, entry) ==
    IF fromStateList = <<>> THEN tmpRules
    ELSE LET fst == Head(fromStateList)
             t1 == IF fst \in DOMAIN tmpRules
                   THEN [tmpRules EXCEPT ![fst] = Append(@, entry)]
                   ELSE tmpRules @@ (fst :> <<entry>>)
         IN  AddRule(t1, Tail(fromStateList), entry)

RECURSIVE AddRules(_, _, _)
AddRules(tmpRules, ruleList, ref) ==
    IF ruleList = <<>> THEN tmpRules
    ELSE LET r == Head(ruleList)
             e == createAllPossibleSets(r.src, ref)
         IN  AddRules(AddRule(tmpRules, e.stlist,
                              [dSt |-> r.dst, rule |-> r.rule]),
                      Tail(ruleList), ref)

createRuleDict(ruleList, ref) == AddRules(EmptyDict, ruleList, ref)

\* ------------------------------------------------- rule expressions
\* A rule expression is a parameter, a parameter times NN(nn) or a parameter
\* times MF(mf); k is the parameter in units of 1/ProbOne per tick.
Param(k) == [kind |-> "param", k |-> k, nn |-> <<>>, mf |-> {}]
NNExpr(k, nodeAtts) == [kind |-> "NN", k |-> k, nn |-> nodeAtts, mf |-> {}]
MFExpr(k, atts) == [kind |-> "MF", k |-> k, nn |-> <<>>, mf |-> atts]

\* The evaluation context nodeUpdateRule sets up: the mean field dictionary
\* of srcNetwork, the neighbours of the node with their data, the network
\* size recorded by initializeNetwork.
NeighborsOf(g, n) == {m \in DOMAIN g.node : {n, m} \in g.edge}

\* ScriptedProcess._NNlookup without edge attributes.
NNlookup(ctx, nodeAtts) == entityCountDict(ctx.node, ctx.nbrs, nodeAtts)

\* ScriptedProcess._MFlookup raises KeyError for a key that is not in the
\* mean field dictionary.
MFfails(ctx, atts) == atts \notin DOMAIN ctx.meanField

\* ScriptedProcess._MFlookup: the counter under the key atts divided by the
\* network size, as the pair of the two.
MFlookup(ctx, atts) ==
    [count |-> ctx.meanField[atts].counter, size |-> ctx.size]

\* eval(rule) fails.
EvalFails(e, ctx) == e.kind = "MF" /\ MFfails(ctx, e.mf)

\* eval(rule) * _currentNetworkSize: MF divides the counter by the network
\* size, so the value is kept as a numerator over that size.
ValueTimesSize(e, ctx) ==
    CASE e.kind = "param" -> e.k * ctx.size
      [] e.kind = "NN" -> e.k * NNlookup(ctx, e.nn) * ctx.size
      [] e.kind = "MF" -> e.k * ctx.meanField[e.mf].counter

\* `eventp <= prob`.
HappensInclusive(eventp, size, p) == eventp * size <= p

\* `eventp < prob`, prob being kept as the numerator p over the network size.
Happens(eventp, size, p) == eventp * size < p

\* The loop over rList in nodeUpdateRule from rule i on, prob being the
\* accumulated probability (times the network size).  fired is the index of
\* the rule followed (0: none), evaluated the number of rules evaluated.
RECURSIVE ScanRules(_, _, _, _, _, _)
ScanRules(rList, i, prob, eventp, dt, ctx) ==
    IF i > Len(rList)
    THEN [fired |-> 0, error |-> FALSE, evaluated |-> Len(rList)]
    ELSE IF EvalFails(rList[i].rule, ctx)
    THEN [fired |-> 0, error |-> TRUE, evaluated |-> i]
    ELSE LET p == prob + ValueTimesSize(rList[i].rule, ctx) * dt
         IN  IF Happens(eventp, ctx.size, p)
             THEN [fired |-> i, error |-> FALSE, evaluated |-> i]
             ELSE ScanRules(rList, i + 1, p, eventp, dt, ctx)

\* dict.update
Update(attrs, dSt) ==
    [a \in (DOMAIN attrs) \cup (DOMAIN dSt) |->
        IF a \in DOMAIN dSt THEN dSt[a] ELSE attrs[a]]

\* ScriptedProcess.nodeUpdateRule for node n with attribute dictionary attrs
\* (a copy), srcNetwork src with mean field dictionary meanField, and the
\* random sample eventp.
nodeUpdateRule(nodeRules, attrs, n, src, meanField, size, dt, eventp) ==
    LET ctx == [node |-> src.node, nbrs |-> NeighborsOf(src, n),
                meanField |-> meanField, size |-> size]
        st == deduceNodeState(attrs)
        rList == IF st \in DOMAIN nodeRules THEN nodeRules[st] ELSE <<>>
        r == ScanRules(rList, 1, 0, eventp, dt, ctx)
    IN  [attrs |-> IF r.fired = 0 THEN attrs
                   ELSE Update(attrs, rList[r.fired].dSt),
         error |-> r.error, fired |-> r.fired, evaluated |-> r.evaluated]

\* ------------------------------------------------------------ inputs
St(x) == {<<"status", Single(x)>>}
Dict(x) == [a \in {"status"} |-> x]

\* Every full state of the node attribute domain.
Leaves == Range(createAllPossibleSets({}, nodeAttributeDict).stlist)

\* [MeanFieldStates] sections: left out; the three states; a state, a
\* tuple-valued partial state and the empty dictionary.
MeanFieldChoices ==
    { <<>>,
      << St("S"), St("I"), St("R") >>,
      << St("S"), {<<"status", Tuple(<<"S", "I">>)>>}, {} >> }

\* [NodeRules] sections.  SIR: S -> I at beta * NN(I), I -> R at gamma.
SIRRules(beta, gamma) ==
    << [src |-> St("S"), dst |-> Dict("I"), rule |-> NNExpr(beta, Dict("I"))],
       [src |-> St("I"), dst |-> Dict("R"), rule |-> Param(gamma)] >>

\* S -> I at a rate proportional to the mean field of I, every state -> R
\* at a flat rate, I -> S by contact with S.
MixedRules ==
    << [src |-> St("S"), dst |-> Dict("I"), rule |-> MFExpr(ProbOne, St("I"))],
       [src |-> {}, dst |-> Dict("R"), rule |-> Param(1)],
       [src |-> St("I"), dst |-> Dict("S"), rule |-> NNExpr(1, Dict("S"))] >>

RuleChoices == { SIRRules(ProbOne, 0), MixedRules }

\* The topologies of the initial network: the complete graph and the path.
CompleteGraph == {{a, b} : a, b \in Nodes} \ {{a} : a \in Nodes}
PathGraph == {{a, a + 1} : a \in Nodes \ {NumNodes}}
GraphChoices == {CompleteGraph, PathGraph}

\* The state_influx dictionary of the graph the network function returns:
\* none (configure creates an empty one), or one the function has filled.
InfluxChoices == {EmptyDict, [k \in Leaves |-> 0]}

\* The states initializeNetworkNodes deals to the nodes.
DealtStates == Range(nodeAttributeDict[1].vals)

\* ------------------------------------------------------------- state
VARIABLES
    process,          \* the Process object's flags, rules and mean fields
    dt, iterations,   \* Simulation.dt, Simulation.iterations
    net,              \* the two graph objects: node data, edges, Time
    cntReg,           \* the heap region of each graph's state_count values
    heap,             \* the LinkedCounter objects, by region and key
    influx,           \* each graph's state_influx dictionary
    network,          \* Simulation.network
    readNetwork, writeNetwork,
    pc, it,           \* position in execute(), loop variable
    todo,             \* nodes the node loop has not reached yet
    eventp,           \* the sample drawn for each node in this pass of the loop
    samples,          \* number of samples drawn for each node in this pass
    ruleScan,         \* for each node, the rule its nodeUpdateRule call of this
                      \* pass followed and the number of rules it evaluated
    nodeRuleTransCnt, \* Simulation.nodeRuleTransCnt
    stateSamples,     \* Simulation.stateSamples
    snapshot,         \* what the read network and its state_influx held when
                      \* this pass of the loop began
    ran,              \* the update phases that have run in this pass
    trial             \* calls made on LinkedCounter objects or on the rule
                      \* compiler outside of a simulation: the start objects
                      \* or input, and the calls with their results

vars == << process, dt, iterations, net, cntReg, heap, influx, network,
           readNetwork, writeNetwork, pc, it, todo, eventp, samples, ruleScan,
           nodeRuleTransCnt, stateSamples, snapshot, ran, trial >>

Buf == {"A", "B"}
NoTrial == [start |-> <<>>, calls |-> <<>>]
NoScan == [fired |-> 0, evaluated |-> 0]
NoGraph == [node |-> <<>>, edge |-> {}, time |-> -1]

\* str(v) for every value of a count or influx dictionary.
CounterValues(d) == [k \in DOMAIN d |-> d[k].counter]

StateCount(b) == heap[cntReg[b]]

\* What a node update can read of graph b.
View(b) == [node |-> net[b].node, edge |-> net[b].edge, time |-> net[b].time,
            count |-> StateCount(b)]

\* The state after Simulation.configure: graph A is the network, with Time
\* 0.0, dealt node states and the counters initializeNetwork creates.
Init ==
    /\ \E cT \in BOOLEAN, rl \in RuleChoices, mfs \in MeanFieldChoices :
          process = [constantTopology |-> cT,
                     runNodeUpdate |-> Len(rl) > 0,
                     runEdgeUpdate |-> FALSE,
                     runNetworkUpdate |-> FALSE,
                     nodeRules |-> createRuleDict(rl, nodeAttributeDict),
                     meanFieldStates |-> mfs,
                     currentNetworkSize |-> NumNodes]
    /\ dt \in TimeSteps
    /\ iterations = MaxIterations
    /\ \E st \in [Nodes -> DealtStates], g \in GraphChoices :
          net = [b \in Buf |->
                    IF b = "A"
                    THEN [node |-> [n \in Nodes |-> Dict(st[n])],
                          edge |-> g, time |-> 0]
                    ELSE NoGraph]
    /\ cntReg = [b \in Buf |-> IF b = "A" THEN 0 ELSE 1]
    /\ heap = [r \in {0, 1} |->
                 IF r = 0
                 THEN initializeNetwork(process.meanFieldStates, net["A"].node)
                 ELSE EmptyDict]
    /\ \E fl \in InfluxChoices :
          influx = [b \in Buf |-> IF b = "A" THEN fl ELSE EmptyDict]
    /\ network = "A"
    /\ readNetwork = "none"
    /\ writeNetwork = "none"
    /\ pc = "configured"
    /\ it = 0
    /\ todo = {}
    /\ eventp = [n \in Nodes |-> -1]
    /\ samples = [n \in Nodes |-> 0]
    /\ ruleScan = [n \in Nodes |-> NoScan]
    /\ nodeRuleTransCnt = <<>>
    /\ stateSamples = [state_count |-> <<>>, state_influx |-> <<>>]
    /\ snapshot = [view |-> View("A"), influx |-> influx["A"]]
    /\ ran = {}
    /\ trial = NoTrial

\* --------------------------------------------------- Simulation.execute
Other(b) == IF b = "A" THEN "B" ELSE "A"

\* The part of execute() before the loop: the samples of time 0, the empty
\* transition count, readNetwork and the first writeNetwork.  A constant
\* topology copies the whole graph (Graph.copy is a deep copy); otherwise
\* the write network is a new graph whose two dictionaries are dict.copy()
\* of the read network's, which hold the same value objects.
ExecuteFrom(state) ==
    /\ pc = state
    /\ stateSamples' =
          [state_count |-> << [Time |-> 0,
                               values |-> CounterValues(StateCount(network))] >>,
           state_influx |-> << [Time |-> 0, values |-> influx[network]] >>]
    /\ nodeRuleTransCnt' = << [time |-> 0, cnt |-> EmptyDict] >>
    /\ readNetwork' = network
    /\ writeNetwork' = Other(network)
    /\ IF process.constantTopology
       THEN /\ net' = [net EXCEPT ![Other(network)] = net[network]]
            /\ cntReg' = [cntReg EXCEPT ![Other(network)] = 1 - cntReg[network]]
            /\ heap' = [heap EXCEPT ![1 - cntReg[network]] = StateCount(network)]
       ELSE /\ net' = [net EXCEPT ![Other(network)] = NoGraph]
            /\ cntReg' = [cntReg EXCEPT ![Other(network)] = cntReg[network]]
            /\ heap' = heap
    /\ influx' = [influx EXCEPT ![Other(network)] = influx[network]]
    /\ pc' = "loop"
    /\ it' = 0
    /\ UNCHANGED << process, dt, iterations, network, todo, eventp, samples,
                    ruleScan, snapshot, ran >>

\* execute() called on the simulation that configure() has set up.
Execute == ExecuteFrom("configured") /\ UNCHANGED trial

\* `constantTopology == False or run...Update == True`: a phase runs when
\* its flag is set, and always when the topology is not constant.
RunsByFlag(flag) == flag

Runs(flag) == ~process.constantTopology \/ flag

\* The head of one pass of the loop: a new transition count entry, and the
\* node loop starts over the nodes of the read network if node updates run.
BeginIteration ==
    /\ pc = "loop"
    /\ it < iterations
    /\ nodeRuleTransCnt' =
          Append(nodeRuleTransCnt,
                 [time |-> nodeRuleTransCnt[Len(nodeRuleTransCnt)].time + dt,
                  cnt |-> EmptyDict])
    /\ todo' = IF Runs(process.runNodeUpdate)
               THEN DOMAIN net[readNetwork].node ELSE {}
    /\ eventp' = [n \in Nodes |-> -1]
    /\ samples' = [n \in Nodes |-> 0]
    /\ ruleScan' = [n \in Nodes |-> NoScan]
    /\ snapshot' = [view |-> View(readNetwork), influx |-> influx[readNetwork]]
    /\ pc' = "nodes"
    /\ ran' = {}
    /\ UNCHANGED << process, dt, iterations, net, cntReg, heap, influx,
                    network, readNetwork, writeNetwork, it, stateSamples,
                    trial >>

\* Graph.add_node(n, attrs): a new node gets the dictionary, an existing
\* node's dictionary is updated with it.
add_node(g, n, attrs) ==
    [g EXCEPT !.node =
        IF n \in DOMAIN g.node
        THEN [g.node EXCEPT ![n] = Update(g.node[n], attrs)]
        ELSE g.node @@ (n :> attrs)]

\* d[k] += 1 for a dictionary of integers.
Incr(d, k) == [d EXCEPT ![k] = @ + 1]

\* The bookkeeping of a node whose state changed from oldstate to newstate,
\* on the write network's dictionaries count and flux and on the transition
\* count cnt of this iteration.  A key that is missing raises KeyError and
\* leaves what was done before it.
CountChange(count, flux, cnt, oldstate, newstate) ==
    LET c1 == iadd(count, newstate, 1)
        c2 == isub(c1, oldstate, 1)
        tr == <<oldstate, newstate>>
    IN  IF newstate \notin DOMAIN count
        THEN [count |-> count, flux |-> flux, cnt |-> cnt, error |-> TRUE]
        ELSE IF oldstate \notin DOMAIN count
        THEN [count |-> c1, flux |-> flux, cnt |-> cnt, error |-> TRUE]
        ELSE IF newstate \notin DOMAIN flux
        THEN [count |-> c2, flux |-> flux, cnt |-> cnt, error |-> TRUE]
        ELSE [count |-> c2, flux |-> Incr(flux, newstate),
              cnt |-> IF tr \in DOMAIN cnt THEN Incr(cnt, tr)
                      ELSE cnt @@ (tr :> 1),
              error |-> FALSE]

\* The result of nodeUpdateRule for node n of the read network and sample u.
RuleResult(n, u) ==
    nodeUpdateRule(process.nodeRules, net[readNetwork].node[n], n,
                   net[readNetwork], StateCount(readNetwork),
                   process.currentNetworkSize, dt, u)

\* One pass of the node loop body, for the node n the iterator yields.
NodeUpdate ==
    /\ pc = "nodes"
    /\ todo # {}
    /\ \E n \in todo, u \in Draws :
          LET oldstate == deduceNodeState(net[readNetwork].node[n])
              r == RuleResult(n, u)
              newstate == deduceNodeState(r.attrs)
              last == Len(nodeRuleTransCnt)
              ch == CountChange(StateCount(writeNetwork), influx[writeNetwork],
                                nodeRuleTransCnt[last].cnt, oldstate, newstate)
          IN  /\ eventp' = [eventp EXCEPT ![n] = u]
              /\ samples' = [samples EXCEPT ![n] = @ + 1]
              /\ ruleScan' = [ruleScan EXCEPT ![n] = [fired |-> r.fired,
                                                       evaluated |-> r.evaluated]]
              /\ IF r.error
                 THEN /\ pc' = "error"
                      /\ UNCHANGED << net, heap, influx, nodeRuleTransCnt, todo >>
                 ELSE /\ net' = [net EXCEPT ![writeNetwork] = add_node(@, n, r.attrs)]
                      /\ todo' = todo \ {n}
                      /\ IF newstate = oldstate
                         THEN /\ pc' = "nodes"
                              /\ UNCHANGED << heap, influx, nodeRuleTransCnt >>
                         ELSE /\ heap' = [heap EXCEPT ![cntReg[writeNetwork]] = ch.count]
                              /\ influx' = [influx EXCEPT ![writeNetwork] = ch.flux]
                              /\ nodeRuleTransCnt' =
                                    [nodeRuleTransCnt EXCEPT ![last].cnt = ch.cnt]
                              /\ pc' = IF ch.error THEN "error" ELSE "nodes"
    /\ ran' = ran \cup {"node"}
    /\ UNCHANGED << process, dt, iterations, cntReg, network, readNetwork,
                    writeNetwork, it, stateSamples, snapshot, trial >>

\* The edge loop.  The process has no edge update rule of its own
\* (Process.edgeUpdateRule returns the edge) and its edges carry no
\* attributes, so every edge of the read network is added to the write
\* network in its old state and no counter changes.
EdgeUpdate ==
    /\ pc = "nodes"
    /\ todo = {}
    /\ net' = IF Runs(process.runEdgeUpdate)
              THEN [net EXCEPT ![writeNetwork].edge = @ \cup net[readNetwork].edge]
              ELSE net
    /\ ran' = IF Runs(process.runEdgeUpdate) THEN ran \cup {"edge"} ELSE ran
    /\ pc' = "network"
    /\ UNCHANGED << process, dt, iterations, cntReg, heap, influx, network,
                    readNetwork, writeNetwork, it, todo, eventp, samples, ruleScan,
                    nodeRuleTransCnt, stateSamples, snapshot, trial >>

\* Process.networkUpdateRule returns the network it is given.
networkUpdateRule(b) == b

NetworkUpdate ==
    /\ pc = "network"
    /\ writeNetwork' = IF Runs(process.runNetworkUpdate)
                       THEN networkUpdateRule(writeNetwork) ELSE writeNetwork
    /\ ran' = IF Runs(process.runNetworkUpdate) THEN ran \cup {"network"} ELSE ran
    /\ pc' = "end"
    /\ UNCHANGED << process, dt, iterations, net, cntReg, heap, influx, network,
                    readNetwork, it, todo, eventp, samples, ruleScan,
                    nodeRuleTransCnt, stateSamples, snapshot, trial >>

\* Time advanced from the Time the written network holds.
advanceTimeFromWrite(readTime, writeTime, step) == writeTime + step

\* The Time the written network gets, from the read network's Time, the
\* Time the written network holds and dt.
advanceTime(readTime, writeTime, step) == readTime + step

\* The defaults of save_state_count, save_state_influx and their intervals.
saveStates == TRUE
saveStatesInterval == 1

\* A pass that is sampled on the interval only.
dueOnInterval(n, pass, total) == n > 0 /\ (pass + 1) % n = 0

\* The test of the sampling: pass + 1 is looked at, as the sample of time 0
\* is taken before the loop, and the last pass is always sampled.
dueNow(n, pass, total) ==
    (n > 0 /\ (pass + 1) % n = 0) \/ pass = total - 1

\* The tail of one pass: Time, the swap of the two networks, the clearing of
\* the new write network for a changing topology, the deep copy of the two
\* dictionaries into it, and the samples.
EndIterationEvery(interval) ==
    /\ pc = "end"
    /\ LET w == writeNetwork
           r == readNetwork
           time == advanceTime(net[r].time, net[w].time, dt)
           take == [k \in DOMAIN interval |->
                       saveStates /\ dueNow(interval[k], it, iterations)]
       IN  /\ network' = w
           /\ writeNetwork' = r
           /\ readNetwork' = w
           /\ net' = [net EXCEPT ![w].time = time,
                                 ![r] = IF process.constantTopology THEN @
                                        ELSE NoGraph]
           /\ cntReg' = [cntReg EXCEPT ![r] = 1 - cntReg[w]]
           /\ heap' = [heap EXCEPT ![1 - cntReg[w]] = StateCount(w)]
           /\ influx' = [influx EXCEPT ![r] = influx[w]]
           /\ stateSamples' =
                 [state_count |->
                     IF take.state_count
                     THEN Append(stateSamples.state_count,
                                 [Time |-> time,
                                  values |-> CounterValues(StateCount(w))])
                     ELSE stateSamples.state_count,
                  state_influx |->
                     IF take.state_influx
                     THEN Append(stateSamples.state_influx,
                                 [Time |-> time, values |-> influx[w]])
                     ELSE stateSamples.state_influx]
    /\ it' = it + 1
    /\ pc' = "loop"
    /\ eventp' = [n \in Nodes |-> -1]
    /\ samples' = [n \in Nodes |-> 0]
    /\ ruleScan' = [n \in Nodes |-> NoScan]
    /\ snapshot' = [view |-> View(readNetwork)', influx |-> influx'[readNetwork']]
    /\ ran' = {}
    /\ UNCHANGED << process, dt, iterations, todo, nodeRuleTransCnt, trial >>

\* The tail of a pass with the default intervals.
EndIteration ==
    EndIterationEvery([state_count |-> saveStatesInterval,
                       state_influx |-> saveStatesInterval])

\* The loop is over.
Finish ==
    /\ pc = "loop"
    /\ it = iterations
    /\ pc' = "done"
    /\ UNCHANGED << process, dt, iterations, net, cntReg, heap, influx, network,
                    readNetwork, writeNetwork, it, todo, eventp, samples, ruleScan,
                    nodeRuleTransCnt, stateSamples, snapshot, ran, trial >>

Next ==
    \/ Execute
    \/ BeginIteration
    \/ NodeUpdate
    \/ EdgeUpdate
    \/ NetworkUpdate
    \/ EndIteration
    \/ Finish

Spec == Init /\ [][Next]_vars

\* ============================================================ properties
\* The points where the network is initialized or an iteration is complete.
AtCheckpoint == pc \in {"configured", "loop", "done"}

RECURSIVE SetSum(_, _)
SetSum(S, f) == IF S = {} THEN 0
                ELSE LET x == CHOOSE x \in S : TRUE
                     IN  f[x] + SetSum(S \ {x}, f)

\* The values the count dictionary d holds for concrete states.
LeafCounters(d) == [k \in Leaves \cap DOMAIN d |-> d[k].counter]

\* The number of nodes of graph g.
NumberOfNodes(g) == Cardinality(DOMAIN g.node)

\* C1: node count conservation.  After initialization and after every
\* completed iteration the leaf counters of the current network's
\* state_count add up to the number of nodes of the network.
C1_NodeCountConservation ==
    AtCheckpoint =>
        LET leaf == LeafCounters(StateCount(network))
        IN  SetSum(DOMAIN leaf, leaf) = NumberOfNodes(net[network])

\* A full scan: the nodes whose attributes take, for every attribute of the
\* partial spec, (one of) the value(s) the spec gives.
FullScan(node, spec) ==
    Cardinality({n \in DOMAIN node :
                   \A p \in spec : \E i \in DOMAIN p[2].v :
                       node[n][p[1]] = p[2].v[i]})

\* The declared mean field states that are not concrete states.
DeclaredAggregates == Range(process.meanFieldStates) \ Leaves

C3_ReadIsolation ==
    (pc = "nodes" /\ todo # {}) => View(readNetwork) = snapshot.view

\* What the update of node n gives when it reads the network as it was when
\* the iteration began, with the sample drawn for n.
ExpectedResult(n) ==
    nodeUpdateRule(process.nodeRules, snapshot.view.node[n], n, snapshot.view,
                   snapshot.view.count, process.currentNetworkSize, dt,
                   eventp[n])
OldState(n) == deduceNodeState(snapshot.view.node[n])
ExpectedState(n) == deduceNodeState(ExpectedResult(n).attrs)
Movers == {n \in DOMAIN snapshot.view.node : ExpectedState(n) # OldState(n)}
Arrivals(k) == Cardinality({n \in Movers : ExpectedState(n) = k})
Departures(k) == Cardinality({n \in Movers : OldState(n) = k})
ExpectedTransitions ==
    [tr \in {<<OldState(n), ExpectedState(n)>> : n \in Movers} |->
        Cardinality({n \in Movers : <<OldState(n), ExpectedState(n)>> = tr})]

\* C4: order independence.  With the sample of every node fixed, the node
\* attributes of the write network and the count, influx and transition
\* count values at the end of the node loop are those that follow from the
\* network at the start of the iteration and the samples alone, in whatever
\* order the nodes were processed.
C4_OrderIndependence ==
    pc = "network" =>
        LET count == StateCount(writeNetwork)
            flux == influx[writeNetwork]
        IN  /\ \A n \in DOMAIN snapshot.view.node :
                  net[writeNetwork].node[n] = ExpectedResult(n).attrs
            /\ \A k \in Leaves \cap DOMAIN count :
                  count[k].counter = snapshot.view.count[k].counter
                                     + Arrivals(k) - Departures(k)
            /\ \A k \in DOMAIN flux :
                  flux[k] = snapshot.influx[k] + Arrivals(k)
            /\ nodeRuleTransCnt[Len(nodeRuleTransCnt)].cnt = ExpectedTransitions

\* The rule list of a node with attribute dictionary attrs.
RulesOf(attrs) ==
    IF deduceNodeState(attrs) \in DOMAIN process.nodeRules
    THEN process.nodeRules[deduceNodeState(attrs)] ELSE <<>>

\* What the rule expressions of node n read in the read network.
ReadContext(n) ==
    [node |-> net[readNetwork].node, nbrs |-> NeighborsOf(net[readNetwork], n),
     meanField |-> StateCount(readNetwork), size |-> process.currentNetworkSize]

\* Rules 1..i of rList can all be evaluated.
Evaluable(rList, i, ctx) == \A j \in 1..i : ~EvalFails(rList[j].rule, ctx)

\* P_i, as a numerator over the network size.
Accumulated(rList, i, ctx) ==
    SeqSum([j \in 1..i |-> ValueTimesSize(rList[j].rule, ctx) * dt])

\* u < P_i
Below(u, rList, i, ctx) ==
    /\ Evaluable(rList, i, ctx)
    /\ u * ctx.size < Accumulated(rList, i, ctx)

\* The step that updates node n draws one sample and follows the first rule
\* whose accumulated probability lies above it.
ScanOf(n) ==
    LET u == eventp'[n]
        attrs == net[readNetwork].node[n]
        rList == RulesOf(attrs)
        ctx == ReadContext(n)
        hits == {i \in DOMAIN rList : Below(u, rList, i, ctx)}
        first == CHOOSE i \in hits : \A j \in hits : i <= j
    IN  /\ u \in Draws
        /\ samples' = [samples EXCEPT ![n] = 1]
        /\ \A m \in Nodes \ {n} : eventp'[m] = eventp[m]
        /\ hits # {} =>
              /\ ruleScan'[n] = [fired |-> first, evaluated |-> first]
              /\ net'[writeNetwork].node[n] = Update(attrs, rList[first].dSt)
        /\ (hits = {} /\ Evaluable(rList, Len(rList), ctx)) =>
              /\ ruleScan'[n] = [fired |-> 0, evaluated |-> Len(rList)]
              /\ net'[writeNetwork].node[n] = attrs

\* C6: rule scan.  Every node update draws exactly one sample u for its
\* node, rules or not; the destination applied is that of the first rule i,
\* in declared order, with u < P_i, P_i being the sum of value * dt over
\* rules 1..i; no rule after i is evaluated; with no such i the attributes
\* are unchanged.  When the node loop is over every node has had one sample.
C6_RuleScan ==
    [][ /\ (pc = "nodes" /\ samples' # samples) => \E n \in todo : ScanOf(n)
        /\ (pc = "nodes" /\ pc' = "network") =>
              \A n \in DOMAIN net[readNetwork].node : samples[n] = 1 ]_vars

\* A node followed its second rule after its first rule was evaluated and
\* not followed, and a node of the same pass had no rule to follow at all.
C6_Witness ==
    /\ pc = "network"
    /\ \E n \in Nodes : ruleScan[n] = [fired |-> 2, evaluated |-> 2]
    /\ \E n \in Nodes : ruleScan[n].fired = 0 /\ samples[n] = 1

\* The step is one pass of the node loop body in which nodeUpdateRule
\* returned for node n.
UpdateOf(n) == pc = "nodes" /\ n \in todo /\ todo' = todo \ {n}

\* The value of the counter of concrete state k in count dictionary d.
Leaf(d, k) == d[k].counter

\* The counters before and after the update of a node that went from a to b.
CounterFrame(a, b) ==
    LET before == StateCount(writeNetwork)
        after == StateCount(writeNetwork)'
    IN  /\ StateCount(readNetwork)' = StateCount(readNetwork)
        /\ IF a = b
           THEN after = before
           ELSE /\ {a, b} \subseteq DOMAIN before
                /\ DOMAIN after = DOMAIN before
                /\ Leaf(after, a) = Leaf(before, a) - 1
                /\ Leaf(after, b) = Leaf(before, b) + 1
                /\ \A k \in (Leaves \cap DOMAIN before) \ {a, b} :
                      Leaf(after, k) = Leaf(before, k)

CounterStep ==
    \A n \in Nodes :
        UpdateOf(n) =>
            CounterFrame(deduceNodeState(net[readNetwork].node[n]),
                         deduceNodeState(net'[writeNetwork].node[n]))

\* C7: counter update on a state change.  When the update of a node moves
\* it from concrete state a to another state b, the write network's counter
\* of a goes down by 1, that of b goes up by 1, no other leaf counter of the
\* write network changes and no counter of the read network changes; when
\* the state stays, no counter changes.
C7_CounterUpdate == [][CounterStep]_vars

\* The transitions into concrete state b that the transition counts record.
TransitionsInto(b) ==
    SeqSum([i \in DOMAIN nodeRuleTransCnt |->
              LET cnt == nodeRuleTransCnt[i].cnt
                  into == {tr \in DOMAIN cnt : tr[2] = b}
              IN  SetSum(into, cnt)])

\* The influx before and after the update of a node that went from a to b.
InfluxFrame(a, b) ==
    LET before == influx[writeNetwork]
        after == influx'[writeNetwork]
    IN  IF a = b
        THEN after = before
        ELSE /\ b \in DOMAIN before
             /\ after = [before EXCEPT ![b] = @ + 1]

InfluxStep ==
    /\ \A n \in Nodes :
          UpdateOf(n) =>
              InfluxFrame(deduceNodeState(net[readNetwork].node[n]),
                          deduceNodeState(net'[writeNetwork].node[n]))
    /\ pc = "end" =>
          \A b \in Leaves :
              /\ b \in DOMAIN influx'[network']
              /\ influx'[network'][b] = TransitionsInto(b)
              /\ influx'[network'][b] >= influx[network][b]

\* C8: influx.  Every change of a node's concrete state into b adds exactly
\* 1 to the influx counter of b in the write network; the values are carried
\* from iteration to iteration, so after every completed iteration the
\* influx of b in the current network is the number of transitions into b
\* so far, and it never decreases.
C8_Influx == [][InfluxStep]_vars

\* The process is the SIR process with beta = 1 and gamma = 0.
IsSIR == process.nodeRules = createRuleDict(SIRRules(ProbOne, 0), nodeAttributeDict)

\* The nodes that had status x when the iteration began.
Had(x) == {n \in DOMAIN snapshot.view.node : snapshot.view.node[n]["status"] = x}

\* A node that was S and is written as I had a neighbour that was I.
OneHop ==
    \A n \in Had("S") :
        (n \in DOMAIN net[writeNetwork].node
         /\ net[writeNetwork].node[n]["status"] = "I")
            => NeighborsOf(snapshot.view, n) \cap Had("I") # {}

\* The first iteration on a triangle with one I node and two S nodes,
\* dt = 1, every sample drawn so far being 0.
TriangleScenario ==
    /\ IsSIR
    /\ dt = 1
    /\ it = 0
    /\ pc \in {"nodes", "network", "end", "error"}
    /\ Cardinality(DOMAIN snapshot.view.node) = 3
    /\ snapshot.view.edge = CompleteGraph
    /\ Cardinality(Had("I")) = 1
    /\ Cardinality(Had("S")) = 2
    /\ \A n \in Nodes : eventp[n] \in {-1, 0}

\* Everybody is I and the counts of S and I have moved by 2.
TriangleResult ==
    LET count == StateCount(writeNetwork)
        was == snapshot.view.count
    IN  /\ \A n \in DOMAIN snapshot.view.node :
              net[writeNetwork].node[n]["status"] = "I"
        /\ {St("S"), St("I")} \subseteq DOMAIN count
        /\ count[St("S")].counter = was[St("S")].counter - 2
        /\ count[St("I")].counter = was[St("I")].counter + 2

\* C9: one-hop spread of the SIR process.  A node that was S at the end of
\* the previous iteration is I after this one only if one of its neighbours
\* was I at the end of the previous iteration; and on a triangle with one I
\* node, u = 0 for every node, beta = 1, gamma = 0, dt = 1, the iteration
\* runs through and leaves all three nodes I, the S count 2 lower and the
\* I count 2 higher.
C9_OneHopSpread ==
    /\ (IsSIR /\ pc \in {"network", "end"}) => OneHop
    /\ TriangleScenario =>
          /\ pc # "error"
          /\ pc \in {"network", "end"} => TriangleResult

\* The tail of an iteration advances Time and swaps the two networks.
SwapStep ==
    pc = "end" =>
        /\ net'[writeNetwork].time = net[readNetwork].time + dt
        /\ network' = writeNetwork
        /\ readNetwork' = writeNetwork
        /\ writeNetwork' = readNetwork

\* C10: time advance and buffer swap.  At the end of an iteration the
\* written network's Time is the read network's Time plus dt, so after k
\* completed iterations Time is k * dt past the initial Time 0;
\* Simulation.network is then the network just written, which is the next
\* read network, and the former read network is the next write network; the
\* read and the write network are never the same graph.
C10_TimeAndSwap ==
    [][ /\ SwapStep
        /\ pc' \in {"loop", "done"} => net'[network'].time = it' * dt
        /\ pc' \notin {"configured"} => readNetwork' # writeNetwork' ]_vars

\* Two iterations are complete with dt = 2: the network is the first graph
\* again and its Time is 4.
C10_Witness ==
    /\ pc = "loop"
    /\ it = 2
    /\ dt = 2
    /\ network = "A"
    /\ readNetwork = "A"
    /\ writeNetwork = "B"
    /\ net[network].time = 4

\* ------------------------------------------------ the update phase flags
\* Processes with every combination of the flags: a scripted process with
\* or without node rules and with or without edge rules (runNodeUpdate,
\* runEdgeUpdate), and classes derived from it that set runNetworkUpdate or
\* constantTopology.  Every state has a counter and an influx entry.
InitFlags ==
    /\ \E cT \in BOOLEAN, rE \in BOOLEAN, rN \in BOOLEAN,
          rl \in {<<>>, SIRRules(ProbOne, 0)} :
          process = [constantTopology |-> cT,
                     runNodeUpdate |-> Len(rl) > 0,
                     runEdgeUpdate |-> rE,
                     runNetworkUpdate |-> rN,
                     nodeRules |-> createRuleDict(rl, nodeAttributeDict),
                     meanFieldStates |-> << St("S"), St("I"), St("R") >>,
                     currentNetworkSize |-> NumNodes]
    /\ dt = 1
    /\ iterations = MaxIterations
    /\ \E st \in [Nodes -> DealtStates] :
          net = [b \in Buf |->
                    IF b = "A"
                    THEN [node |-> [n \in Nodes |-> Dict(st[n])],
                          edge |-> PathGraph, time |-> 0]
                    ELSE NoGraph]
    /\ cntReg = [b \in Buf |-> IF b = "A" THEN 0 ELSE 1]
    /\ heap = [r \in {0, 1} |->
                 IF r = 0
                 THEN initializeNetwork(process.meanFieldStates, net["A"].node)
                 ELSE EmptyDict]
    /\ influx = [b \in Buf |-> IF b = "A" THEN [k \in Leaves |-> 0] ELSE EmptyDict]
    /\ network = "A"
    /\ readNetwork = "none"
    /\ writeNetwork = "none"
    /\ pc = "configured"
    /\ it = 0
    /\ todo = {}
    /\ eventp = [n \in Nodes |-> -1]
    /\ samples = [n \in Nodes |-> 0]
    /\ ruleScan = [n \in Nodes |-> NoScan]
    /\ nodeRuleTransCnt = <<>>
    /\ stateSamples = [state_count |-> <<>>, state_influx |-> <<>>]
    /\ snapshot = [view |-> View("A"), influx |-> influx["A"]]
    /\ ran = {}
    /\ trial = NoTrial

SpecFlags == InitFlags /\ [][Next]_vars

\* A pass of the loop has begun and no node has been updated yet.
StartOfPass == pc = "nodes" /\ ran = {}

\* C11: non-constant topology.  With constantTopology False the write
\* buffer holds no node and no edge when a pass begins while its count and
\* influx dictionaries equal the read network's, and the node update, the
\* edge update and the network update hook all run in every pass whatever
\* the three flags say; with constantTopology True each of the three phases
\* runs iff its flag is True.
C11_NonConstantTopology ==
    /\ (StartOfPass /\ ~process.constantTopology) =>
          /\ net[writeNetwork].node = <<>>
          /\ net[writeNetwork].edge = {}
          /\ CounterValues(StateCount(writeNetwork))
                = CounterValues(StateCount(readNetwork))
          /\ influx[writeNetwork] = influx[readNetwork]
    /\ (pc = "end" /\ ~process.constantTopology) =>
          /\ ran = {"node", "edge", "network"}
          /\ \A n \in DOMAIN net[readNetwork].node : samples[n] = 1
          /\ DOMAIN net[writeNetwork].node = DOMAIN net[readNetwork].node
          /\ net[writeNetwork].edge = net[readNetwork].edge
    /\ (pc = "end" /\ process.constantTopology) =>
          /\ "node" \in ran <=> process.runNodeUpdate
          /\ \A n \in DOMAIN net[readNetwork].node :
                samples[n] = (IF process.runNodeUpdate THEN 1 ELSE 0)
          /\ "edge" \in ran <=> process.runEdgeUpdate
          /\ "network" \in ran <=> process.runNetworkUpdate

\* The second pass of a process without rules and with all flags False but
\* a changing topology has run all three phases.
C11_Witness ==
    /\ pc = "end"
    /\ it = 1
    /\ ~process.constantTopology
    /\ ~process.runNodeUpdate /\ ~process.runEdgeUpdate
    /\ ~process.runNetworkUpdate
    /\ ran = {"node", "edge", "network"}
    /\ net[writeNetwork].edge = PathGraph

\* ------------------------------------------- LinkedCounter objects alone
\* The variables of the simulation while no simulation is configured.
simVars == << process, dt, iterations, net, cntReg, influx, network,
              readNetwork, writeNetwork, it, todo, eventp, samples, ruleScan,
              nodeRuleTransCnt, stateSamples, snapshot, ran >>

NoSimulation ==
    /\ process = [constantTopology |-> TRUE, runNodeUpdate |-> FALSE,
                  runEdgeUpdate |-> FALSE, runNetworkUpdate |-> FALSE,
                  nodeRules |-> EmptyDict, meanFieldStates |-> <<>>,
                  currentNetworkSize |-> 0]
    /\ dt = 0
    /\ iterations = 0
    /\ net = [b \in Buf |-> NoGraph]
    /\ cntReg = [b \in Buf |-> IF b = "A" THEN 0 ELSE 1]
    /\ influx = [b \in Buf |-> EmptyDict]
    /\ network = "none"
    /\ readNetwork = "none"
    /\ writeNetwork = "none"
    /\ it = 0
    /\ todo = {}
    /\ eventp = [n \in Nodes |-> -1]
    /\ samples = [n \in Nodes |-> 0]
    /\ ruleScan = [n \in Nodes |-> NoScan]
    /\ nodeRuleTransCnt = <<>>
    /\ stateSamples = [state_count |-> <<>>, state_influx |-> <<>>]
    /\ snapshot = [view |-> NoGraph, influx |-> EmptyDict]
    /\ ran = {}

\* The number of calls made on the objects.
MaxCalls == 2

CounterNames == {"c1", "c2", "c3"}

\* The listener lists the three objects are constructed with: no links; c2
\* lists c1; a chain c3 -> c2 -> c1; c1 and c2 list each other; c3 lists c1
\* and c2; c2 lists c1 twice; c1 lists itself.
Links(l1, l2, l3) == [x \in CounterNames |->
                        IF x = "c1" THEN l1 ELSE IF x = "c2" THEN l2 ELSE l3]
LinkChoices ==
    { Links(<<>>, <<>>, <<>>),
      Links(<<>>, <<"c1">>, <<>>),
      Links(<<>>, <<"c1">>, <<"c2">>),
      Links(<<"c2">>, <<"c1">>, <<>>),
      Links(<<>>, <<>>, <<"c1", "c2">>),
      Links(<<>>, <<"c1", "c1">>, <<>>),
      Links(<<"c1">>, <<>>, <<>>) }

\* The initial values of c1, c2, c3.
StartValues == { <<10, 5, 0>>, <<1, 2, 4>> }
Operands == {1, 3}

Objects(vals, links) ==
    [x \in CounterNames |->
        LinkedCounter(IF x = "c1" THEN vals[1]
                      ELSE IF x = "c2" THEN vals[2] ELSE vals[3],
                      links[x])]

InitCounters ==
    /\ NoSimulation
    /\ pc = "counters"
    /\ \E vals \in StartValues, links \in LinkChoices :
          /\ heap = [r \in {0, 1} |->
                       IF r = 0 THEN Objects(vals, links) ELSE EmptyDict]
          /\ trial = [start |-> Objects(vals, links), calls |-> <<>>]

Called(c) == trial' = [trial EXCEPT !.calls = Append(@, c)]

\* X += other
Increment ==
    /\ pc = "counters"
    /\ Len(trial.calls) < MaxCalls
    /\ \E x \in CounterNames, other \in Operands :
          /\ heap' = [heap EXCEPT ![0] = iadd(@, x, other)]
          /\ Called([op |-> "iadd", x |-> x, arg |-> other, broadcast |-> FALSE])
    /\ UNCHANGED << simVars, pc >>

\* X -= other
Decrement ==
    /\ pc = "counters"
    /\ Len(trial.calls) < MaxCalls
    /\ \E x \in CounterNames, other \in Operands :
          /\ heap' = [heap EXCEPT ![0] = isub(@, x, other)]
          /\ Called([op |-> "isub", x |-> x, arg |-> other, broadcast |-> FALSE])
    /\ UNCHANGED << simVars, pc >>

\* X.set(value, broadcast)
SetValue ==
    /\ pc = "counters"
    /\ Len(trial.calls) < MaxCalls
    /\ \E x \in CounterNames, value \in Operands, broadcast \in BOOLEAN :
          /\ heap' = [heap EXCEPT ![0] = set(@, x, value, broadcast)]
          /\ Called([op |-> "set", x |-> x, arg |-> value,
                     broadcast |-> broadcast])
    /\ UNCHANGED << simVars, pc >>

NextCounters == Increment \/ Decrement \/ SetValue

SpecCounters == InitCounters /\ [][NextCounters]_vars

\* The call made by the step, when the step is a call.
IsCall == trial'.calls # trial.calls
ThisCall == trial'.calls[Len(trial'.calls)]

Occurrences(links, y) == Cardinality({i \in DOMAIN links : links[i] = y})
Counter(y) == heap[0][y].counter
LinksOf(x) == heap[0][x].linkedCounters
CounterAfter(y) == heap'[0][y].counter
SameLinks == \A y \in CounterNames : LinksOf(y)' = LinksOf(y)

\* What X += delta makes of the counter of y: delta for X itself and delta
\* for each place y has in X's own list, nothing for any other object.
AfterAdd(x, delta, y) ==
    Counter(y) + (IF y = x THEN delta ELSE 0)
               + delta * Occurrences(LinksOf(x), y)

ScenarioStart == Objects(<<10, 5, 0>>, Links(<<>>, <<"c1">>, <<>>))
AddCall(x, d) == [op |-> "iadd", x |-> x, arg |-> d, broadcast |-> FALSE]

DocStart == Objects(<<1, 2, 4>>, Links(<<>>, <<"c1">>, <<>>))

\* C13: the example of the class documentation, A = LinkedCounter(1) and
\* B = LinkedCounter(2, [A]) (A is c1, B is c2): A += 1 results in A == 2 and
\* B == 3, and a following B += 1 results in B == 4 while A == 2.
C13_DocExample ==
    trial.start = DocStart =>
      /\ trial.calls = << AddCall("c1", 1) >>
            => (Counter("c1") = 2 /\ Counter("c2") = 3)
      /\ trial.calls = << AddCall("c1", 1), AddCall("c2", 1) >>
            => (Counter("c2") = 4 /\ Counter("c1") = 2)

\* C14: set(v, broadcast=True) sets the counter and the counter of every
\* directly linked LinkedCounter to the value v itself; set(v,
\* broadcast=False) sets only the counter itself and leaves every linked
\* counter unchanged; in both cases the counters that are not in the link
\* list are unchanged.
C14_Set ==
    [][(IsCall /\ ThisCall.op = "set") =>
         LET x == ThisCall.x
             v == ThisCall.arg
             linked == Range(LinksOf(x))
         IN  /\ CounterAfter(x) = v
             /\ ThisCall.broadcast =>
                   \A y \in linked : CounterAfter(y) = v
             /\ ~ThisCall.broadcast =>
                   \A y \in linked \ {x} : CounterAfter(y) = Counter(y)
             /\ \A y \in CounterNames \ (linked \cup {x}) :
                   CounterAfter(y) = Counter(y)
             /\ SameLinks
      ]_vars

\* c3, which lists c1 and c2, was set to 3 without broadcast and then to 1
\* with broadcast: the first call left c1 and c2 alone, the second did not.
C14_Witness ==
    /\ pc = "counters"
    /\ trial.start = Objects(<<10, 5, 0>>, Links(<<>>, <<>>, <<"c1", "c2">>))
    /\ trial.calls = << [op |-> "set", x |-> "c3", arg |-> 3, broadcast |-> FALSE],
                        [op |-> "set", x |-> "c3", arg |-> 1, broadcast |-> TRUE] >>
    /\ Counter("c1") = 1
    /\ Counter("c2") = 1
    /\ Counter("c3") = 1

\* ------------------------------------------- loading a process definition
\* The [EdgeAttributes] section.
edgeAttributeDict == << [att |-> "weight", vals |-> <<"lo", "hi">>] >>

\* [NodeAttributes] sections: the three states of status; status and age;
\* a status with one value.
DomainChoices ==
    { nodeAttributeDict,
      << [att |-> "status", vals |-> <<"S", "I">>],
         [att |-> "age", vals |-> <<"y", "o">>] >>,
      << [att |-> "status", vals |-> <<"S">>] >> }

\* Process.__init__: the names the configuration strings are evaluated in,
\* the attribute names and values of the nodes and of the edges.
NamesOf(attDict) ==
    UNION { {attDict[i].att} \cup Range(attDict[i].vals) : i \in DOMAIN attDict }

evalNS(nodeAtts, edgeAtts) == NamesOf(nodeAtts) \cup NamesOf(edgeAtts)

\* A dictionary display as written in the file: the items in textual order.
\* The names eval looks up, in the order it looks them up (the value of an
\* item before its key).
RECURSIVE EvalOrder(_)
EvalOrder(text) ==
    IF text = <<>> THEN <<>>
    ELSE Head(text)[2].v \o << Head(text)[1] >> \o EvalOrder(Tail(text))

NotIn(names, ns) == SelectSeq(names, LAMBDA n : n \notin ns)

\* eval(s, self.evalNS): a NameError for the first name that is not in the
\* namespace, or the dictionary.
evalText(text, ns) ==
    LET missing == NotIn(EvalOrder(text), ns)
    IN  [raised |-> missing # <<>>,
         name |-> IF missing # <<>> THEN Head(missing) ELSE "",
         value |-> Range(text)]

\* The destination dictionary of a rule, as the node update reads it.
AsDict(spec) ==
    [a \in {q[1] : q \in spec} |-> Lookup(spec, a).v[1]]

\* The first eval of _createRuleDict that raises, source before destination,
\* rule after rule.
RECURSIVE FirstNameError(_, _)
FirstNameError(ruleList, ns) ==
    IF ruleList = <<>> THEN [raised |-> FALSE, name |-> ""]
    ELSE LET fromState == evalText(Head(ruleList).src, ns)
             toState == evalText(Head(ruleList).dst, ns)
         IN  IF fromState.raised
             THEN [raised |-> TRUE, name |-> fromState.name]
             ELSE IF toState.raised
             THEN [raised |-> TRUE, name |-> toState.name]
             ELSE FirstNameError(Tail(ruleList), ns)

\* _createRuleDict on the rules as the configuration file has them.
createRuleDictFromText(ruleList, ref, ns) ==
    LET err == FirstNameError(ruleList, ns)
        evaluated == [i \in DOMAIN ruleList |->
                        [src |-> Range(ruleList[i].src),
                         dst |-> AsDict(Range(ruleList[i].dst)),
                         rule |-> ruleList[i].rule]]
    IN  IF err.raised
        THEN [raised |-> TRUE, name |-> err.name, rules |-> EmptyDict]
        ELSE [raised |-> FALSE, name |-> "",
              rules |-> createRuleDict(evaluated, ref)]

Item(a, v) == << <<a, v>> >>

\* Attribute dictionaries: empty; one state; two states in either order;
\* one value listed twice; a value of another attribute; an attribute and a
\* tuple; an edge attribute; an attribute of no domain.
SpecTexts ==
    { <<>>,
      Item("status", Single("S")),
      Item("status", Tuple(<<"S", "I">>)),
      Item("status", Tuple(<<"I", "S">>)),
      Item("status", Tuple(<<"S", "S">>)),
      Item("status", Single("lo")),
      Item("age", Single("o")),
      Item("status", Single("S")) \o Item("age", Tuple(<<"y", "o">>)),
      Item("weight", Single("lo")),
      Item("sex", Single("S")) }

Rule(src, dst, k) == [src |-> src, dst |-> dst, rule |-> Param(k)]

\* The rules a [NodeRules] section is made of.
RuleTexts ==
    { Rule(Item("status", Single("S")), Item("status", Single("I")), 1),
      Rule(<<>>, Item("status", Single("S")), 2),
      Rule(Item("status", Tuple(<<"S", "I">>)), Item("status", Single("S")), 1),
      Rule(Item("status", Tuple(<<"S", "S">>)), Item("status", Single("I")), 2),
      Rule(Item("weight", Single("lo")), Item("status", Single("S")), 1),
      Rule(Item("status", Single("S")), Item("weight", Single("hi")), 2),
      Rule(Item("sex", Single("S")), Item("status", Single("S")), 1) }

RuleListChoices ==
    { <<r>> : r \in RuleTexts } \cup { <<r, q>> : r \in RuleTexts, q \in RuleTexts }

InitLoader ==
    /\ NoSimulation
    /\ pc = "loader"
    /\ heap = [r \in {0, 1} |-> EmptyDict]
    /\ \E ref \in DomainChoices :
          trial = [start |-> ref, calls |-> <<>>]

\* self._createAllPossibleSets(attDict, self.nodeAttributeDict)
Expand ==
    /\ pc = "loader"
    /\ trial.calls = <<>>
    /\ \E text \in SpecTexts :
          Called([op |-> "expand", arg |-> Range(text), raised |-> FALSE,
                  name |-> "",
                  result |-> createAllPossibleSets(Range(text), trial.start)])
    /\ UNCHANGED << simVars, pc, heap >>

\* self._createRuleDict(nodeRuleList, self.nodeAttributeDict)
Compile ==
    /\ pc = "loader"
    /\ trial.calls = <<>>
    /\ \E ruleList \in RuleListChoices :
          LET res == createRuleDictFromText(ruleList, trial.start,
                         evalNS(trial.start, edgeAttributeDict))
          IN  Called([op |-> "compile", arg |-> ruleList,
                      raised |-> res.raised, name |-> res.name,
                      result |-> res.rules])
    /\ UNCHANGED << simVars, pc, heap >>

\* [MeanFieldStates] sections: the declared states, in the file's order.
MeanFieldTexts ==
    { <<>>,
      Item("status", Single("S")),
      Item("status", Tuple(<<"S", "I">>)),
      Item("status", Tuple(<<"S">>)),
      Item("age", Single("o")),
      Item("status", Single("S")) \o Item("age", Tuple(<<"y", "o">>)) }

MeanFieldListChoices ==
    { <<>> } \cup { <<t>> : t \in MeanFieldTexts }
             \cup { <<t, u>> : t \in MeanFieldTexts, u \in MeanFieldTexts }

\* The first eval of initializeNetwork that raises.
RECURSIVE FirstMeanFieldError(_, _)
FirstMeanFieldError(mfs, ns) ==
    IF mfs = <<>> THEN [raised |-> FALSE, name |-> ""]
    ELSE IF evalText(Head(mfs), ns).raised
    THEN [raised |-> TRUE, name |-> evalText(Head(mfs), ns).name]
    ELSE FirstMeanFieldError(Tail(mfs), ns)

\* A network whose nodes all have the first value of every attribute.
FirstValues(ref) ==
    [n \in Nodes |-> [a \in {ref[i].att : i \in DOMAIN ref} |->
        ref[CHOOSE i \in DOMAIN ref : ref[i].att = a].vals[1]]]

\* initializeNetwork with the declared states mfs, then MF(atts) in a rule
\* of the first node update.
MeanFieldLookup ==
    /\ pc = "loader"
    /\ trial.calls = <<>>
    /\ \E mfs \in MeanFieldListChoices, text \in MeanFieldTexts, leaf \in BOOLEAN :
          LET ref == trial.start
              ns == evalNS(ref, edgeAttributeDict)
              err == FirstMeanFieldError(mfs, ns)
              declared == [i \in DOMAIN mfs |-> Range(mfs[i])]
              count == InitMeanFieldsOver(EmptyDict, declared, FirstValues(ref), ref)
              atts == IF leaf
                      THEN createAllPossibleSets(Range(text), ref).stlist[1]
                      ELSE Range(text)
          IN  /\ ~err.raised
              /\ ~evalText(text, ns).raised
              /\ Called([op |-> "MF", arg |-> [declared |-> declared, atts |-> atts],
                         raised |-> MFfails([meanField |-> count], atts),
                         name |-> "", result |-> count])
    /\ UNCHANGED << simVars, pc, heap >>

NextLoader == Expand \/ Compile \/ MeanFieldLookup

SpecLoader == InitLoader /\ [][NextLoader]_vars

CallsOf(op) == {i \in DOMAIN trial.calls : trial.calls[i].op = op}
Attributes(ref) == {ref[i].att : i \in DOMAIN ref}
Domain(ref, a) == Range(ref[CHOOSE i \in DOMAIN ref : ref[i].att = a].vals)
ValueOf(s, a) == Lookup(s, a).v[1]

\* Every full state over the reference domain.
FullStates(ref) ==
    { {<<a, Single(f[a])>> : a \in Attributes(ref)} :
      f \in { g \in [Attributes(ref) -> NamesOf(ref)] :
              \A a \in Attributes(ref) : g[a] \in Domain(ref, a) } }

\* s[a] in P[a] for each attribute a of P.
Matches(s, P) ==
    \A q \in P : HasKey(s, q[1]) /\ ValueOf(s, q[1]) \in Range(q[2].v)

RECURSIVE Product(_, _)
Product(ref, i) ==
    IF i > Len(ref) THEN 1 ELSE Len(ref[i].vals) * Product(ref, i + 1)

\* C15: the expander returns the key of P as given, with a list that holds
\* exactly the full states s over D with s[a] in P[a] for each attribute a of
\* P and s[a] in D[a] for every other attribute, each such state exactly
\* once; for the empty spec these are all the concrete states, product of
\* |D[a]| in number, all distinct.
C15_Expansion ==
    \A i \in CallsOf("expand") :
       LET P == trial.calls[i].arg
           D == trial.start
           oset == trial.calls[i].result.oset
           stlist == trial.calls[i].result.stlist
       IN  /\ oset = P
           /\ Range(stlist) = {s \in FullStates(D) : Matches(s, P)}
           /\ Cardinality(Range(stlist)) = Len(stlist)
           /\ P = {} => Len(stlist) = Product(D, 1)

\* The attributes a dictionary names that the reference domain does not have.
Unknown(spec, ref) == {q[1] : q \in spec} \ Attributes(ref)

UnknownInRules(ruleList, ref) ==
    UNION { Unknown(Range(ruleList[i].src), ref)
            \cup Unknown(Range(ruleList[i].dst), ref) : i \in DOMAIN ruleList }

\* C16: expanding a partial spec, or compiling a rule whose source or
\* destination spec names an attribute that is not in the reference domain
\* of the nodes, fails with an error that names the attribute, and no rule
\* is registered.
C16_UnknownAttributeRejected ==
    /\ \A i \in CallsOf("expand") :
          Unknown(trial.calls[i].arg, trial.start) # {} =>
             /\ trial.calls[i].raised
             /\ trial.calls[i].name \in Unknown(trial.calls[i].arg, trial.start)
    /\ \A i \in CallsOf("compile") :
          UnknownInRules(trial.calls[i].arg, trial.start) # {} =>
             /\ trial.calls[i].raised
             /\ trial.calls[i].name
                   \in UnknownInRules(trial.calls[i].arg, trial.start)
             /\ trial.calls[i].result = EmptyDict

\* One entry for each declared rule whose source spec matches s, in the
\* order of declaration.
RECURSIVE EntriesFor(_, _)
EntriesFor(s, ruleList) ==
    IF ruleList = <<>> THEN <<>>
    ELSE (IF Matches(s, Range(Head(ruleList).src))
          THEN << [dSt |-> AsDict(Range(Head(ruleList).dst)),
                   rule |-> Head(ruleList).rule] >>
          ELSE <<>>)
         \o EntriesFor(s, Tail(ruleList))

\* C17: after compilation the rule list of every concrete source state s
\* holds exactly one entry for each declared rule whose source spec matches
\* s and none for the others, in declaration order, each entry being the
\* rule's destination spec, not expanded, with its expression; a state that
\* no rule matches has no rule list.
C17_RuleTable ==
    \A i \in CallsOf("compile") :
       LET ruleList == trial.calls[i].arg
           table == trial.calls[i].result
       IN  ~trial.calls[i].raised =>
             \A s \in FullStates(trial.start) \cup DOMAIN table :
                IF EntriesFor(s, ruleList) = <<>>
                THEN s \notin DOMAIN table
                ELSE s \in DOMAIN table /\ table[s] = EntriesFor(s, ruleList)

\* The node update of the step, when the step is the update of node n in
\* which a rule fired.
Fired(n) == pc = "nodes" /\ samples'[n] # samples[n] /\ ruleScan'[n].fired # 0
FiredDst(n) ==
    process.nodeRules[deduceNodeState(net[readNetwork].node[n])]
                     [ruleScan'[n].fired].dSt

\* What the firing of a rule for node n does to the node attributes of the
\* write network.
Overwrite(n) ==
    LET old == net[readNetwork].node[n]
        new == net'[writeNetwork].node[n]
    IN  /\ DOMAIN new = DOMAIN old \cup DOMAIN FiredDst(n)
        /\ \A a \in DOMAIN FiredDst(n) : new[a] = FiredDst(n)[a]
        /\ \A a \in DOMAIN old \ DOMAIN FiredDst(n) : new[a] = old[a]
        /\ \A m \in DOMAIN net[writeNetwork].node \ {n} :
              net'[writeNetwork].node[m] = net[writeNetwork].node[m]
        /\ DOMAIN net'[writeNetwork].node
              = DOMAIN net[writeNetwork].node \cup {n}

\* C18: when a rule fires for a node, exactly the attributes listed in the
\* rule's destination spec are set to the listed values, every other
\* attribute of that node keeps its value, and no attribute of any other node
\* and nothing in the read network changes.
C18_DestinationOverwrite ==
    [][\A n \in Nodes :
         Fired(n) => (Overwrite(n) /\ View(readNetwork)' = View(readNetwork))
      ]_vars

\* The rules of node n that the update of the step has evaluated and that
\* look up a mean field that is there.
LookedUp(n) ==
    {j \in 1..ruleScan'[n].evaluated :
        /\ RulesOf(net[readNetwork].node[n])[j].rule.kind = "MF"
        /\ ~MFfails(ReadContext(n), RulesOf(net[readNetwork].node[n])[j].rule.mf)}

\* C19: MF(spec) evaluated during iteration k returns c / N, c being the
\* counter stored under exactly the key spec in the read network, with the
\* value it had at the end of iteration k-1 whatever the transitions of
\* iteration k so far, and N the number of nodes.
C19_MeanFieldValue ==
    [][\A n \in Nodes :
         (pc = "nodes" /\ samples'[n] # samples[n]) =>
            \A j \in LookedUp(n) :
               LET spec == RulesOf(net[readNetwork].node[n])[j].rule.mf
               IN  MFlookup(ReadContext(n), spec)
                     = [count |-> snapshot.view.count[spec].counter,
                        size |-> Cardinality(DOMAIN net[readNetwork].node)]
      ]_vars

\* The states MF can be asked for: the declared specs and the concrete states
\* of their expansions.
Declared(mfs, ref) ==
    Range(mfs) \cup UNION { Range(createAllPossibleSets(mfs[i], ref).stlist) :
                            i \in DOMAIN mfs }

\* C20: MF(spec) succeeds for every partial spec that was declared as a
\* mean field state and for every concrete state in the expansion of a
\* declared spec, whatever the attribute domain, and fails with an error for
\* every spec that was not declared.
C20_MeanFieldDomain ==
    \A i \in CallsOf("MF") :
       trial.calls[i].raised
          <=> trial.calls[i].arg.atts
                 \notin Declared(trial.calls[i].arg.declared, trial.start)

\* --------------------------------------------- neighbour counts (NN)
\* matchDictAttributes for a query dictionary whose values are given as in an
\* attribute dictionary of the configuration (a single value or a tuple):
\* `vdict0.get(k) != v` is true for every tuple v, a node value being a
\* string.
matchDictValues(vdict0, vdict1) ==
    \A q \in vdict1 :
       /\ q[1] \in DOMAIN vdict0
       /\ ~q[2].tuple
       /\ vdict0[q[1]] = q[2].v[1]

\* srcNetwork as nodeUpdateRule sees it from node n: self._currentNNIter, the
\* list of the neighbours with their data, and self._currentAdj, the data of
\* the edges to them.
Neighbourhood(g, n) ==
    [nbrs |-> {m \in DOMAIN g.node : {n, m} \in DOMAIN g.edge},
     node |-> g.node,
     adj |-> [m \in {m \in DOMAIN g.node : {n, m} \in DOMAIN g.edge} |->
                g.edge[{n, m}]]]

NoEdgeAtts == [given |-> FALSE, atts |-> {}]
GivenEdgeAtts(atts) == [given |-> TRUE, atts |-> atts]

\* ScriptedProcess._NNlookup(nodeAtts, givenEdgeAtts).
NNlookupOver(nh, nodeAtts, givenEdgeAtts) ==
    IF ~givenEdgeAtts.given
    THEN Cardinality({m \in nh.nbrs : matchDictValues(nh.node[m], nodeAtts)})
    ELSE Cardinality({m \in {x \in nh.nbrs :
                                matchDictValues(nh.adj[x], givenEdgeAtts.atts)} :
                      matchDictValues(nh.node[m], nodeAtts)})

\* The attributes of node n: a status that varies and an age by parity.
AgeOf(n) == IF n % 2 = 1 THEN "y" ELSE "o"
NodeData(st) == [n \in Nodes |-> [a \in {"status", "age"} |->
                                    IF a = "status" THEN st[n] ELSE AgeOf(n)]]

NNSpecs ==
    { {},
      {<<"status", Single("S")>>},
      {<<"age", Single("y")>>},
      {<<"status", Single("I")>>, <<"age", Single("o")>>},
      {<<"status", Tuple(<<"S", "I">>)>>},
      {<<"status", Tuple(<<"I">>)>>, <<"age", Single("y")>>} }

EdgeSpecs ==
    { NoEdgeAtts,
      GivenEdgeAtts({}),
      GivenEdgeAtts({<<"weight", Single("lo")>>}),
      GivenEdgeAtts({<<"weight", Tuple(<<"lo", "hi">>)>>}) }

InitNeighbours ==
    /\ NoSimulation
    /\ pc = "neighbours"
    /\ heap = [r \in {0, 1} |-> EmptyDict]
    /\ \E st \in [Nodes -> {"S", "I"}], edges \in GraphChoices :
       \E w \in [edges -> {"lo", "hi"}] :
          trial = [start |-> [node |-> NodeData(st),
                              edge |-> [e \in edges |-> [weight |-> w[e]]]],
                   calls |-> <<>>]

\* A rule expression of node n with two NN calls.
CountNeighbours ==
    /\ pc = "neighbours"
    /\ trial.calls = <<>>
    /\ \E n \in Nodes, nodeAtts \in NNSpecs, edgeAtts \in EdgeSpecs :
          LET nh == Neighbourhood(trial.start, n)
          IN  Called([op |-> "NN", n |-> n, nodeAtts |-> nodeAtts,
                      edgeAtts |-> edgeAtts,
                      result |-> NNlookupOver(nh, nodeAtts, edgeAtts),
                      again |-> NNlookupOver(nh, {}, NoEdgeAtts)])
    /\ UNCHANGED << simVars, pc, heap >>

NextNeighbours == CountNeighbours

SpecNeighbours == InitNeighbours /\ [][NextNeighbours]_vars

\* attrs matches the partial state spec: every listed attribute is there
\* with one of the acceptable values.
Accepts(attrs, spec) ==
    \A q \in spec : q[1] \in DOMAIN attrs /\ attrs[q[1]] \in Range(q[2].v)

NeighboursIn(g, n) == {m \in DOMAIN g.node : {n, m} \in DOMAIN g.edge}

\* C21: NN(nodeSpec) returns the number of neighbours of the current node in
\* the read network whose attributes match the partial state nodeSpec (which
\* may leave attributes out and may give a tuple of acceptable values);
\* NN(nodeSpec, edgeSpec) counts only the neighbours whose connecting edge
\* matches edgeSpec; a further NN call in the same expression sees all the
\* neighbours again.
C21_NeighbourCount ==
    \A i \in CallsOf("NN") :
       LET c == trial.calls[i]
           g == trial.start
           over == IF c.edgeAtts.given
                   THEN {m \in NeighboursIn(g, c.n) :
                           Accepts(g.edge[{c.n, m}], c.edgeAtts.atts)}
                   ELSE NeighboursIn(g, c.n)
       IN  /\ c.result = Cardinality({m \in over : Accepts(g.node[m], c.nodeAtts)})
           /\ c.again = Cardinality(NeighboursIn(g, c.n))

\* ------------------------------------------------- timed attribute values
\* A _TimedState object, and a bare string in the same shape.
TimedState(value, time) == [timed |-> TRUE, value |-> value, time |-> time]
Bare(value) == [timed |-> FALSE, value |-> value, time |-> 0]

\* _TimedState.__eq__(self, other): for another _TimedState `other` is
\* replaced by self.value before the comparison.
TimedEq(self, other) ==
    IF other.timed THEN self.value = self.value ELSE self.value = other.value

\* a == b in Python: str.__eq__ for two strings, otherwise the __eq__ of the
\* operand that is a _TimedState (the left one first).
PyEq(a, b) ==
    IF a.timed THEN TimedEq(a, b)
    ELSE IF b.timed THEN TimedEq(b, a)
    ELSE a.value = b.value

\* hash() of the strings in use, which differ pairwise.
StrHash(v) ==
    CASE v = "S" -> 1 [] v = "I" -> 2 [] v = "R" -> 3 [] v = "y" -> 4
      [] v = "o" -> 5 [] v = "lo" -> 6 [] v = "hi" -> 7 [] OTHER -> 0

\* _TimedState.__hash__, and the hash of a string.
PyHash(a) == StrHash(a.value)

SetMax(xs) == CHOOSE x \in xs : \A y \in xs : y <= x

\* ScriptedTimedProcess._T0(atts): numpy.max over the listed attributes; a
\* KeyError for an attribute the node does not have, a ValueError for the
\* maximum of the empty list.
T0(currentState, currentTime, atts) ==
    IF \E q \in atts : q[1] \notin DOMAIN currentState
    THEN [raised |-> TRUE, error |-> "KeyError", value |-> 0]
    ELSE IF atts = {}
    THEN [raised |-> TRUE, error |-> "ValueError", value |-> 0]
    ELSE [raised |-> FALSE, error |-> "",
          value |-> SetMax({ IF PyEq(currentState[q[1]], Bare(q[2]))
                             THEN currentState[q[1]].time
                             ELSE currentTime : q \in atts })]

\* ScriptedTimedProcess._T(atts)
T(currentState, currentTime, atts) ==
    LET t0 == T0(currentState, currentTime, atts)
    IN  IF t0.raised THEN t0
        ELSE [raised |-> FALSE, error |-> "", value |-> currentTime - t0.value]

\* The times, in units of dt, attributes were assigned at, and the time of
\* the read network.
StampChoices == {0, 1}
NowChoices == {1, 2}

\* The dictionaries T0 and T are asked for.
TimedSpecs ==
    { {},
      {<<"status", "S">>},
      {<<"status", "I">>},
      {<<"status", "S">>, <<"age", "y">>},
      {<<"status", "I">>, <<"age", "y">>},
      {<<"age", "o">>},
      {<<"status", "lo">>},
      {<<"weight", "lo">>} }

TimedValues ==
    { TimedState(v, t) : v \in {"S", "I"}, t \in StampChoices }
    \cup { Bare(v) : v \in {"S", "I"} }

InitTimed ==
    /\ NoSimulation
    /\ pc = "timed"
    /\ heap = [r \in {0, 1} |-> EmptyDict]
    /\ \E st \in {"S", "I"}, t1 \in StampChoices, t2 \in StampChoices,
          now \in NowChoices :
          trial = [start |-> [state |-> [a \in {"status", "age"} |->
                                           IF a = "status" THEN TimedState(st, t1)
                                           ELSE TimedState("y", t2)],
                              time |-> now],
                   calls |-> <<>>]

\* A rule expression of the node with T0(atts) and T(atts).
TimeInState ==
    /\ pc = "timed"
    /\ trial.calls = <<>>
    /\ \E atts \in TimedSpecs :
          Called([op |-> "T", atts |-> atts,
                  t0 |-> T0(trial.start.state, trial.start.time, atts),
                  t |-> T(trial.start.state, trial.start.time, atts)])
    /\ UNCHANGED << simVars, pc, heap >>

\* a == b and the two hashes, for attribute values a and b.
Compare ==
    /\ pc = "timed"
    /\ trial.calls = <<>>
    /\ \E a \in TimedValues, b \in TimedValues :
          Called([op |-> "eq", a |-> a, b |-> b, eq |-> PyEq(a, b),
                  hasha |-> PyHash(a), hashb |-> PyHash(b)])
    /\ UNCHANGED << simVars, pc, heap >>

NextTimed == TimeInState \/ Compare

SpecTimed == InitTimed /\ [][NextTimed]_vars

\* The node is in the state atts: it has every listed attribute with the
\* listed value.
InState(state, atts) ==
    \A q \in atts : q[1] \in DOMAIN state /\ state[q[1]].value = q[2]

\* C22: T0(spec) is the maximum, over the attributes listed in spec, of the
\* attribute's timestamp if the node's value equals the listed value and of
\* the current time otherwise; T(spec) is the current time minus T0(spec),
\* so 0 whenever the node differs from spec on a listed attribute; neither
\* raises an error for a state the node is not in or that does not exist.
C22_TimeInState ==
    \A i \in CallsOf("T") :
       LET c == trial.calls[i]
           state == trial.start.state
           now == trial.start.time
       IN  /\ (c.atts # {} /\ \A q \in c.atts : q[1] \in DOMAIN state) =>
                 /\ ~c.t0.raised
                 /\ c.t0.value = SetMax({ IF state[q[1]].value = q[2]
                                          THEN state[q[1]].time ELSE now :
                                          q \in c.atts })
                 /\ ~c.t.raised
                 /\ c.t.value = now - c.t0.value
           /\ ~InState(state, c.atts) =>
                 /\ ~c.t0.raised /\ c.t0.value = now
                 /\ ~c.t.raised /\ c.t.value = 0

\* C23: a timed value compares equal to a bare value iff its wrapped value
\* equals the bare value, two timed values compare equal iff their wrapped
\* values are equal, whatever the timestamps, and equal values have equal
\* hashes.
C23_TimedEquality ==
    \A i \in CallsOf("eq") :
       LET c == trial.calls[i]
       IN  (c.a.timed \/ c.b.timed) =>
              /\ c.eq <=> (c.a.value = c.b.value)
              /\ c.eq => c.hasha = c.hashb


\* ------------------------------------------------ a failing rule expression
\* eval() raised for some node of the running pass: the pass stopped at a
\* node that was drawn for and is still to be written.
EvalFailed == pc = "error" /\ \E n \in todo : samples[n] > 0

\* No sample of the list is later than the start of the running pass.
NoneOfThisPass(list) ==
    \A i \in DOMAIN list : list[i].Time <= snapshot.view.time

\* C25: when the evaluation of a rule expression fails for a node in some
\* iteration, the run stops there: there is no default state for the node,
\* Simulation.network is the network the iteration started from, with the
\* counter values it had then, and neither a count nor an influx sample of
\* the iteration has been recorded.
C25_EvaluationFailure ==
    EvalFailed =>
        /\ network = readNetwork
        /\ View(network).node = snapshot.view.node
        /\ View(network).edge = snapshot.view.edge
        /\ View(network).time = snapshot.view.time
        /\ CounterValues(StateCount(network)) = CounterValues(snapshot.view.count)
        /\ NoneOfThisPass(stateSamples.state_count)
        /\ NoneOfThisPass(stateSamples.state_influx)

\* An evaluation failure after another node of the same pass changed state.
C25_Witness ==
    ~(EvalFailed /\ \E tr \in DOMAIN nodeRuleTransCnt[Len(nodeRuleTransCnt)].cnt :
                        nodeRuleTransCnt[Len(nodeRuleTransCnt)].cnt[tr] > 0)


\* ------------------------------------------------------------ whole runs
\* Runs that go through all their passes: every state is declared as a mean
\* field and has an influx entry, the two sample lists have intervals of
\* their own, and execute() may be called again on the finished simulation.
MaxExecutes == 2

\* save_state_count_interval and save_state_influx_interval: the defaults,
\* and intervals of which one divides the number of passes or not.
SaveIntervals ==
    { [state_count |-> 1, state_influx |-> 1],
      [state_count |-> 2, state_influx |-> 3],
      [state_count |-> 3, state_influx |-> 2] }

\* S -> I at a flat rate, I -> R at a rate that reads the mean field of a
\* state that is not declared.
FailingRules ==
    << [src |-> St("S"), dst |-> Dict("I"), rule |-> Param(1)],
       [src |-> St("I"), dst |-> Dict("R"), rule |-> MFExpr(1, {})] >>

RunRuleChoices == { SIRRules(1, 1), FailingRules }

InitRuns ==
    /\ \E cT \in BOOLEAN, rl \in RunRuleChoices :
          process = [constantTopology |-> cT,
                     runNodeUpdate |-> Len(rl) > 0,
                     runEdgeUpdate |-> FALSE,
                     runNetworkUpdate |-> FALSE,
                     nodeRules |-> createRuleDict(rl, nodeAttributeDict),
                     meanFieldStates |-> << St("S"), St("I"), St("R") >>,
                     currentNetworkSize |-> NumNodes]
    /\ dt = 1
    /\ iterations = MaxIterations
    /\ \E st \in [Nodes -> DealtStates] :
          net = [b \in Buf |->
                    IF b = "A"
                    THEN [node |-> [n \in Nodes |-> Dict(st[n])],
                          edge |-> PathGraph, time |-> 0]
                    ELSE NoGraph]
    /\ cntReg = [b \in Buf |-> IF b = "A" THEN 0 ELSE 1]
    /\ heap = [r \in {0, 1} |->
                 IF r = 0
                 THEN initializeNetwork(process.meanFieldStates, net["A"].node)
                 ELSE EmptyDict]
    /\ influx = [b \in Buf |-> IF b = "A" THEN [k \in Leaves |-> 0] ELSE EmptyDict]
    /\ network = "A"
    /\ readNetwork = "none"
    /\ writeNetwork = "none"
    /\ pc = "configured"
    /\ it = 0
    /\ todo = {}
    /\ eventp = [n \in Nodes |-> -1]
    /\ samples = [n \in Nodes |-> 0]
    /\ ruleScan = [n \in Nodes |-> NoScan]
    /\ nodeRuleTransCnt = <<>>
    /\ stateSamples = [state_count |-> <<>>, state_influx |-> <<>>]
    /\ snapshot = [view |-> View("A"), influx |-> influx["A"]]
    /\ ran = {}
    /\ \E n \in SaveIntervals :
          trial = [start |-> [interval |-> n], calls |-> <<>>]

\* The tail of a pass with the configured intervals.
EndIterationSaving == EndIterationEvery(trial.start.interval)

\* execute() called on a simulation whose execute() has returned.  Nothing
\* of the object says that it has run: the call starts from
\* Simulation.network as it is.
ExecuteAgain ==
    /\ Cardinality(CallsOf("execute")) + 1 < MaxExecutes
    /\ ExecuteFrom("done")
    /\ Called([op |-> "execute",
               time |-> net[network].time,
               node |-> net[network].node,
               count |-> CounterValues(StateCount(network))])

\* The loop of execute() has no test that could end it early and no
\* handler: a run is cancelled by the interpreter raising
\* KeyboardInterrupt, which leaves execute() from wherever it is.
Interrupt ==
    /\ pc \in {"loop", "nodes", "network", "end"}
    /\ pc' = "interrupted"
    /\ Called([op |-> "interrupt", at |-> pc, left |-> todo, pass |-> it])
    /\ UNCHANGED simVars
    /\ UNCHANGED heap

NextRuns ==
    \/ Execute
    \/ ExecuteAgain
    \/ BeginIteration
    \/ NodeUpdate
    \/ EdgeUpdate
    \/ NetworkUpdate
    \/ EndIterationSaving
    \/ Finish
    \/ Interrupt

SpecRuns == InitRuns /\ [][NextRuns]_vars


\* C24: a simulation whose execute() has run its loop to the end is
\* finished: when execute() is called on it again, without a new
\* configuration, the nodes, the Time and the counters of
\* Simulation.network stay what they were when the first call returned.
C24_CompletedTerminal ==
    \A i \in CallsOf("execute") :
        /\ net[network].time = trial.calls[i].time
        /\ net[network].node = trial.calls[i].node
        /\ CounterValues(StateCount(network)) = trial.calls[i].count

\* C26: a run that is cancelled stops between two passes of the loop: the
\* pass that was running at the request has updated all its nodes and has
\* run to its end, and the next one has not started.
C26_Cancellation ==
    \A i \in CallsOf("interrupt") : trial.calls[i].at = "loop"


\* ------------------------------------------------------ sampling schedule
\* The passes of a run of total passes that leave a sample in a list of
\* interval n, by their 1-based index.
Sampled(n, total) == {j \in 1..total : j % n = 0 \/ j = total}

\* The sample of Simulation.network as it is after the step.
CountSampleAfter ==
    [Time |-> net'[network'].time,
     values |-> CounterValues(heap'[cntReg'[network']])]

InfluxSampleAfter ==
    [Time |-> net'[network'].time, values |-> influx'[network']]

\* What a step does to a list of samples of interval n: the start of
\* execute() leaves the sample of time 0 alone in it, a pass that ends leaves
\* one more sample, later than the last one, if its index is in the
\* schedule, and the list is left as it is by every other step.
ListStep(list, listAfter, n, first, sample) ==
    IF pc' = "loop" /\ pc \in {"configured", "done"}
    THEN listAfter = << first >>
    ELSE IF it' = it + 1 /\ (it + 1) \in Sampled(n, iterations)
    THEN /\ listAfter = Append(list, sample)
         /\ sample.Time > list[Len(list)].Time
    ELSE listAfter = list

SampleStep ==
    /\ ListStep(stateSamples.state_count, stateSamples'.state_count,
                trial.start.interval.state_count,
                [Time |-> 0, values |-> CounterValues(StateCount(network))],
                CountSampleAfter)
    /\ ListStep(stateSamples.state_influx, stateSamples'.state_influx,
                trial.start.interval.state_influx,
                [Time |-> 0, values |-> influx[network]],
                InfluxSampleAfter)

\* C27: with intervals n >= 1 the list of count samples, and likewise that
\* of influx samples, holds the sample taken before the first pass, then
\* one sample for each pass whose 1-based index is a multiple of n or is the
\* last, once each and in strictly increasing order of time; a sample holds
\* the values of the network just written as they are then, and no later
\* step changes a sample that is in the list.
C27_SamplingSchedule == [][SampleStep]_vars

\* A finished run whose count interval does not divide the number of
\* passes: the count list has fewer samples than passes and ends with the
\* sample of the last pass.
C27_Witness ==
    /\ pc = "done"
    /\ iterations % trial.start.interval.state_count # 0
    /\ Len(stateSamples.state_count) =
          1 + Cardinality(Sampled(trial.start.interval.state_count, iterations))
    /\ Len(stateSamples.state_count) < iterations + 1
    /\ stateSamples.state_count[Len(stateSamples.state_count)].Time =
          net[network].time
    /\ Len(stateSamples.state_influx) =
          1 + Cardinality(Sampled(trial.start.interval.state_influx, iterations))


\* ------------------------------------------------------ transition counts
\* A pass of the loop is running or has stopped.
InPass == pc \in {"nodes", "network", "end", "error"}

\* The nodes the running pass has written, and those of them that went
\* from state a to state b.
Written == DOMAIN net[readNetwork].node \ todo

Moved(a, b) ==
    {n \in Written : /\ deduceNodeState(net[readNetwork].node[n]) = a
                     /\ deduceNodeState(net[writeNetwork].node[n]) = b}

\* The count of the pair (a, b) in the entry of the running pass.
Entry == nodeRuleTransCnt[Len(nodeRuleTransCnt)]

TransCnt(a, b) ==
    IF <<a, b>> \in DOMAIN Entry.cnt THEN Entry.cnt[<<a, b>>] ELSE 0

\* The transitions into b that the influx has counted in the running pass.
InfluxOfPass(b) ==
    IF b \in DOMAIN influx[writeNetwork]
    THEN influx[writeNetwork][b] - snapshot.influx[b]
    ELSE 0

\* The counts of the pairs from the states of from into b, added up.
RECURSIVE SumInto(_, _)
SumInto(b, from) ==
    IF from = {} THEN 0
    ELSE LET a == CHOOSE y \in from : TRUE
         IN  TransCnt(a, b) + SumInto(b, from \ {a})

\* C28: entry k of the transition counts has the time k * dt, entry 0 is
\* empty; in the entry of a pass the count of a pair of states (a, b),
\* a # b, is the number of nodes the pass has moved from a to b, a pair
\* that no node has taken is absent, and the counts of the pairs into b add
\* up to the transitions into b the influx has counted in the pass.
C28_TransitionMatrix ==
    /\ \A k \in DOMAIN nodeRuleTransCnt :
          nodeRuleTransCnt[k].time = (k - 1) * dt
    /\ nodeRuleTransCnt # <<>> => nodeRuleTransCnt[1].cnt = EmptyDict
    /\ InPass =>
          /\ \A a \in Leaves : \A b \in Leaves \ {a} :
                TransCnt(a, b) = Cardinality(Moved(a, b))
          /\ \A tr \in DOMAIN Entry.cnt : Entry.cnt[tr] > 0 /\ tr[1] # tr[2]
          /\ \A b \in Leaves : SumInto(b, Leaves \ {b}) = InfluxOfPass(b)


\* ------------------------------------------------------------ edge rules
\* A scripted process with an [EdgeRules] section.  The graphs carry the
\* attribute dictionaries of their edges in the field edata.
\* AttributeStateProcess.deduceEdgeState: frozenset(edge[-1].iteritems()).
deduceEdgeState(attrs) == {<<a, Single(attrs[a])>> : a \in DOMAIN attrs}

\* An edge update that follows the first rule of the edge's state.
edgeUpdateRuleScan(edge, srcNetwork, step) ==
    LET s == deduceEdgeState(edge)
    IN  IF s \in DOMAIN process.edgeRules /\ process.edgeRules[s] # <<>>
        THEN Update(edge, process.edgeRules[s][1].dSt)
        ELSE edge

\* Process.edgeUpdateRule, which ScriptedProcess does not overload: the edge
\* is returned as it is.
edgeUpdateRule(edge, srcNetwork, step) == edge

\* [EdgeRules]: weight lo -> hi at a rate that makes the change certain.
EdgeRuleList ==
    << [src |-> {<<"weight", Single("lo")>>},
        dst |-> [a \in {"weight"} |-> "hi"],
        rule |-> Param(ProbOne)] >>

EdgeValues == Range(edgeAttributeDict[1].vals)

InitEdges ==
    /\ \E rl \in {<<>>, SIRRules(ProbOne, 0)}, el \in {<<>>, EdgeRuleList} :
          process = [constantTopology |-> TRUE,
                     runNodeUpdate |-> Len(rl) > 0,
                     runEdgeUpdate |-> Len(el) > 0,
                     runNetworkUpdate |-> FALSE,
                     nodeRules |-> createRuleDict(rl, nodeAttributeDict),
                     edgeRules |-> createRuleDict(el, edgeAttributeDict),
                     meanFieldStates |-> << St("S"), St("I"), St("R") >>,
                     currentNetworkSize |-> NumNodes]
    /\ dt = 1
    /\ iterations = MaxIterations
    /\ \E st \in [Nodes -> DealtStates], wt \in [PathGraph -> EdgeValues] :
          net = [b \in Buf |->
                    IF b = "A"
                    THEN [node |-> [n \in Nodes |-> Dict(st[n])],
                          edge |-> PathGraph,
                          edata |-> [e \in PathGraph |->
                                        [a \in {"weight"} |-> wt[e]]],
                          time |-> 0]
                    ELSE NoGraph]
    /\ cntReg = [b \in Buf |-> IF b = "A" THEN 0 ELSE 1]
    /\ heap = [r \in {0, 1} |->
                 IF r = 0
                 THEN initializeNetwork(process.meanFieldStates, net["A"].node)
                 ELSE EmptyDict]
    /\ influx = [b \in Buf |-> IF b = "A" THEN [k \in Leaves |-> 0] ELSE EmptyDict]
    /\ network = "A"
    /\ readNetwork = "none"
    /\ writeNetwork = "none"
    /\ pc = "configured"
    /\ it = 0
    /\ todo = {}
    /\ eventp = [n \in Nodes |-> -1]
    /\ samples = [n \in Nodes |-> 0]
    /\ ruleScan = [n \in Nodes |-> NoScan]
    /\ nodeRuleTransCnt = <<>>
    /\ stateSamples = [state_count |-> <<>>, state_influx |-> <<>>]
    /\ snapshot = [view |-> View("A"), influx |-> influx["A"]]
    /\ ran = {}
    /\ trial = NoTrial

\* The count and influx updates of the edges es that changed state, from
\* old[e] to new[e], one edge after the other; a missing key raises KeyError.
RECURSIVE CountEdges(_, _, _, _, _)
CountEdges(count, flux, es, old, new) ==
    IF es = {} THEN [count |-> count, flux |-> flux, error |-> FALSE]
    ELSE LET e == CHOOSE x \in es : TRUE
             ch == CountChange(count, flux, EmptyDict, old[e], new[e])
         IN  IF ch.error
             THEN [count |-> ch.count, flux |-> ch.flux, error |-> TRUE]
             ELSE CountEdges(ch.count, ch.flux, es \ {e}, old, new)

\* The edge loop of a pass: every edge of the read network is copied, given
\* to edgeUpdateRule and added to the write network; an edge whose state has
\* changed is counted.
EdgeLoop ==
    /\ pc = "nodes"
    /\ todo = {}
    /\ IF Runs(process.runEdgeUpdate)
       THEN LET r == net[readNetwork]
                w == net[writeNetwork]
                ne == [e \in r.edge |-> edgeUpdateRule(r.edata[e], r, dt)]
                old == [e \in r.edge |-> deduceEdgeState(r.edata[e])]
                new == [e \in r.edge |-> deduceEdgeState(ne[e])]
                ch == CountEdges(StateCount(writeNetwork), influx[writeNetwork],
                                 {e \in r.edge : new[e] # old[e]}, old, new)
            IN  /\ net' = [net EXCEPT
                      ![writeNetwork].edge = w.edge \cup r.edge,
                      ![writeNetwork].edata =
                          [e \in w.edge \cup r.edge |->
                              IF e \notin r.edge THEN w.edata[e]
                              ELSE IF e \in w.edge THEN Update(w.edata[e], ne[e])
                              ELSE ne[e]]]
                /\ heap' = [heap EXCEPT ![cntReg[writeNetwork]] = ch.count]
                /\ influx' = [influx EXCEPT ![writeNetwork] = ch.flux]
                /\ pc' = IF ch.error THEN "error" ELSE "network"
                /\ ran' = ran \cup {"edge"}
       ELSE /\ pc' = "network"
            /\ UNCHANGED << net, heap, influx, ran >>
    /\ UNCHANGED << process, dt, iterations, cntReg, network, readNetwork,
                    writeNetwork, it, todo, eventp, samples, ruleScan,
                    nodeRuleTransCnt, stateSamples, snapshot, trial >>

NextEdges ==
    \/ Execute
    \/ BeginIteration
    \/ NodeUpdate
    \/ EdgeLoop
    \/ NetworkUpdate
    \/ EndIteration
    \/ Finish

SpecEdges == InitEdges /\ [][NextEdges]_vars

\* The step is the edge phase of a pass of a process with edge rules.
EdgePhase ==
    pc = "nodes" /\ todo = {} /\ pc' # "nodes" /\ process.edgeRules # EmptyDict

\* The edges of the read network whose state has a rule that is certain to
\* fire, and the attributes the rule gives them.
HasCertainRule(e) ==
    LET s == deduceEdgeState(net[readNetwork].edata[e])
    IN  /\ s \in DOMAIN process.edgeRules
        /\ process.edgeRules[s] # <<>>
        /\ process.edgeRules[s][1].rule = Param(ProbOne)

ByFirstRule(e) ==
    Update(net[readNetwork].edata[e],
           process.edgeRules[deduceEdgeState(net[readNetwork].edata[e])][1].dSt)

\* C29 as stated: when edge rules are declared the edge phase runs and an
\* edge is updated like a node, by the rules of its state: an edge whose
\* first rule is certain to fire is written with the attributes of that
\* rule's destination.
C29_EdgeRules ==
    [][EdgePhase =>
          /\ "edge" \in ran'
          /\ \A e \in net[readNetwork].edge :
                HasCertainRule(e) =>
                    net'[writeNetwork].edata[e] = ByFirstRule(e)]_vars

\* C29, amended: when edge rules are declared the edge phase runs, and it
\* gives every edge of the read network to Process.edgeUpdateRule, which
\* returns it as it is: no rule is looked up or evaluated for an edge, the
\* edge is in the write network with the attributes it has in the read
\* network, and no count or influx value changes.
C29_EdgesUnchanged ==
    [][EdgePhase =>
          /\ "edge" \in ran'
          /\ pc' = "network"
          /\ \A e \in net[readNetwork].edge :
                /\ e \in net'[writeNetwork].edge
                /\ net'[writeNetwork].edata[e] = net[readNetwork].edata[e]
          /\ heap' = heap
          /\ influx' = influx]_vars

\* The edge phase has run in a pass whose read network has an edge of
\* weight lo, the state the declared rule starts from.
C29_Witness ==
    /\ pc = "network"
    /\ "edge" \in ran
    /\ process.edgeRules # EmptyDict
    /\ \E e \in net[readNetwork].edge :
          /\ net[readNetwork].edata[e]["weight"] = "lo"
          /\ net[writeNetwork].edata[e]["weight"] = "lo"


\* --------------------------------------------------- ExplicitStateProcess
\* A process whose nodes and edges carry their state in the attribute
\* "state".  states maps the nodes, or the edges, to their state.
\* networkxtra.attributeCount: the number of entities of each state that
\* occurs.
attributeCount(states) ==
    [k \in Range(states) |-> Cardinality({e \in DOMAIN states : states[e] = k})]

\* The loop at the end of initializeNetworkNodes and initializeNetworkEdges:
\* a counter of 0 for every state that has none.
ZeroMissing(count, ids) ==
    [k \in DOMAIN count \cup ids |-> IF k \in DOMAIN count THEN count[k] ELSE 0]

\* attributeValueDeal calls n[-1].update(v) for the value v dealt to an
\* entity.  initializeNetworkNodes deals dictionaries {"state": s};
\* initializeNetworkEdges deals the bare state s, and dict.update of a
\* string raises ValueError.  Nothing is dealt without values or entities.
dealRaises(asDict, ids, entities) == ~asDict /\ ids # {} /\ entities # {}

\* ExplicitStateProcess.initializeNetwork: state_count is updated with the
\* count of the node states, then with the count of the edge states.
explicitInitializeNetwork(count, nodeIds, edgeIds, node, edge) ==
    LET c1 == IF nodeIds # {} THEN Update(count, attributeCount(node)) ELSE count
    IN  IF edgeIds # {} THEN Update(c1, attributeCount(edge)) ELSE c1

\* The states of the process: two node states, and no edge state, two edge
\* states of their own, or two edge states of which one has the label of a
\* node state.
NodeStateIds == {"a", "b"}
EdgeStateChoices == { {}, {"x", "y"}, {"a", "x"} }

InitExplicit ==
    /\ NoSimulation
    /\ pc = "explicit"
    /\ heap = [r \in {0, 1} |-> EmptyDict]
    /\ \E edgeIds \in EdgeStateChoices, edgeInit \in BOOLEAN, filled \in BOOLEAN :
       \E node \in [Nodes -> NodeStateIds],
          edge \in [PathGraph -> IF edgeIds = {} THEN {"none"} ELSE edgeIds] :
          trial = [start |-> [nodeStateIds |-> NodeStateIds,
                              edgeStateIds |-> edgeIds,
                              node |-> node, edge |-> edge,
                              edgeInit |-> edgeInit,
                              influx |-> IF filled
                                         THEN [k \in NodeStateIds \cup edgeIds |-> 0]
                                         ELSE EmptyDict],
                   calls |-> <<>>]

\* The initialization of Simulation.configure: the node states are dealt,
\* the edge states are dealt unless edge_init is off (the edges then have
\* the state the network function gave them), and initializeNetwork counts.
Configure ==
    /\ pc = "explicit"
    /\ trial.calls = <<>>
    /\ LET in == trial.start
           c1 == ZeroMissing(EmptyDict, in.nodeStateIds)
           raised == in.edgeInit
                     /\ dealRaises(FALSE, in.edgeStateIds, DOMAIN in.edge)
           c2 == IF in.edgeInit THEN ZeroMissing(c1, in.edgeStateIds) ELSE c1
       IN  Called([op |-> "configure", raised |-> raised,
                   node |-> in.node, edge |-> in.edge,
                   count |-> IF raised THEN c1
                             ELSE explicitInitializeNetwork(
                                      c2, in.nodeStateIds, in.edgeStateIds,
                                      in.node, in.edge),
                   influx |-> in.influx])
    /\ UNCHANGED << simVars, pc, heap >>

\* The last call, which holds the network as it is.
Now == trial.calls[Len(trial.calls)]

\* The counting of an entity that went from state old to state new:
\* count[new] += 1, count[old] -= 1, influx[new] += 1 on dictionaries of
\* integers; a missing key raises KeyError.
countMove(count, flux, old, new) ==
    IF new \notin DOMAIN count
    THEN [count |-> count, flux |-> flux, raised |-> TRUE]
    ELSE IF old \notin DOMAIN count
    THEN [count |-> Incr(count, new), flux |-> flux, raised |-> TRUE]
    ELSE LET c == [Incr(count, new) EXCEPT ![old] = @ - 1]
         IN  IF new \notin DOMAIN flux
             THEN [count |-> c, flux |-> flux, raised |-> TRUE]
             ELSE [count |-> c, flux |-> Incr(flux, new), raised |-> FALSE]

\* A pass in which the nodeUpdateRule of a deriving class moves one node to
\* another node state.
NodeChange ==
    /\ pc = "explicit"
    /\ trial.calls # <<>>
    /\ Len(trial.calls) < MaxCalls
    /\ ~Now.raised
    /\ \E n \in Nodes, new \in trial.start.nodeStateIds :
          /\ new # Now.node[n]
          /\ LET ch == countMove(Now.count, Now.influx, Now.node[n], new)
             IN  Called([op |-> "node", raised |-> ch.raised,
                         node |-> [Now.node EXCEPT ![n] = new], edge |-> Now.edge,
                         count |-> ch.count, influx |-> ch.flux])
    /\ UNCHANGED << simVars, pc, heap >>

\* A pass in which the edgeUpdateRule of a deriving class moves one edge to
\* another edge state.
EdgeChange ==
    /\ pc = "explicit"
    /\ trial.calls # <<>>
    /\ Len(trial.calls) < MaxCalls
    /\ ~Now.raised
    /\ \E e \in DOMAIN Now.edge, new \in trial.start.edgeStateIds :
          /\ new # Now.edge[e]
          /\ LET ch == countMove(Now.count, Now.influx, Now.edge[e], new)
             IN  Called([op |-> "edge", raised |-> ch.raised,
                         node |-> Now.node, edge |-> [Now.edge EXCEPT ![e] = new],
                         count |-> ch.count, influx |-> ch.flux])
    /\ UNCHANGED << simVars, pc, heap >>

NextExplicit == Configure \/ NodeChange \/ EdgeChange

SpecExplicit == InitExplicit /\ [][NextExplicit]_vars

\* The counters of the states ids of dictionary count, added up.
RECURSIVE SumOf(_, _)
SumOf(count, ids) ==
    IF ids = {} THEN 0
    ELSE LET k == CHOOSE x \in ids : TRUE
         IN  (IF k \in DOMAIN count THEN count[k] ELSE 0)
             + SumOf(count, ids \ {k})

\* C30: for a process with node states and edge states, after the
\* initialization and after every pass that has completed, the counters of
\* the edge states add up to the number of edges and the counters of the
\* node states to the number of nodes, also when a node state and an edge
\* state have the same label.
C30_EdgeCountConservation ==
    \A i \in DOMAIN trial.calls :
        (pc = "explicit" /\ trial.start.edgeStateIds # {}
                         /\ ~trial.calls[i].raised) =>
            /\ SumOf(trial.calls[i].count, trial.start.edgeStateIds)
                  = Cardinality(DOMAIN trial.calls[i].edge)
            /\ SumOf(trial.calls[i].count, trial.start.nodeStateIds)
                  = Cardinality(DOMAIN trial.calls[i].node)


\* ------------------------------------------------------ counter buffers
\* execute() is between its first line and its return or exception.
InExecute == pc \in {"loop", "nodes", "network", "end", "error"}

\* Every link of a counter of dictionary d names a counter of d.
LinksWithin(d) ==
    \A k \in DOMAIN d :
        \A i \in DOMAIN d[k].linkedCounters : d[k].linkedCounters[i] \in DOMAIN d

\* C31: at every point of execute(), for constant and for changing
\* topology and from the first pass on, the count dictionaries of the read
\* and of the write network hold different counter objects, every link of a
\* counter leads to a counter of the same dictionary, and when a pass begins
\* every counter and influx value of the write network equals that of the
\* read network.
C31_DisjointBuffers ==
    InExecute =>
        /\ cntReg[readNetwork] # cntReg[writeNetwork]
        /\ LinksWithin(StateCount(readNetwork))
        /\ LinksWithin(StateCount(writeNetwork))
        /\ StartOfPass =>
              /\ CounterValues(StateCount(writeNetwork))
                    = CounterValues(StateCount(readNetwork))
              /\ influx[writeNetwork] = influx[readNetwork]


\* ------------------------------------- initializeNetwork on its own
\* Attribute domains: the three states; a domain of which one value is made
\* of the two others; two attributes.
SeedDomains ==
    { nodeAttributeDict,
      << [att |-> "status", vals |-> <<"I", "R", "IR">>] >>,
      << [att |-> "status", vals |-> <<"S", "I", "R">>],
         [att |-> "age", vals |-> <<"y", "o">>] >> }

\* [MeanFieldStates] entries over the first attribute of a domain: the empty
\* dictionary, a single value, two tuples that overlap in one value, and a
\* tuple that lists a value twice.
SeedSpecs(ref) ==
    LET a == ref[1].att
        v == ref[1].vals
    IN  { {},
          {<<a, Single(v[1])>>},
          {<<a, Tuple(<<v[1], v[2]>>)>>},
          {<<a, Tuple(<<v[2], v[3]>>)>>},
          {<<a, Tuple(<<v[1], v[1]>>)>>} }

\* The attribute dictionaries a node can have over a domain.
NodeDicts(ref) ==
    { g \in [Attributes(ref) -> NamesOf(ref)] :
        \A a \in Attributes(ref) : g[a] \in Domain(ref, a) }

InitSeed ==
    /\ NoSimulation
    /\ pc = "seed"
    /\ heap = [r \in {0, 1} |-> EmptyDict]
    /\ \E ref \in SeedDomains :
       \E node \in [Nodes -> NodeDicts(ref)],
          mfs \in {<<>>} \cup {<<x>> : x \in SeedSpecs(ref)}
                  \cup {<<x, y>> : x \in SeedSpecs(ref), y \in SeedSpecs(ref)} :
          trial = [start |-> [ref |-> ref, node |-> node, mfs |-> mfs],
                   calls |-> <<>>]

\* ScriptedProcess.initializeNetwork on the network that configure() has
\* dealt the node states to.
InitializeNetwork ==
    /\ pc = "seed"
    /\ trial.calls = <<>>
    /\ Called([op |-> "initializeNetwork",
               result |-> InitMeanFieldsOver(EmptyDict, trial.start.mfs,
                                             trial.start.node, trial.start.ref)])
    /\ UNCHANGED << simVars, pc, heap >>

NextSeed == InitializeNetwork

SpecSeed == InitSeed /\ [][NextSeed]_vars

\* The keys of a count dictionary that are concrete states, and the others.
LeafKeys(d, ref) == DOMAIN d \cap FullStates(ref)
AggregateKeys(d, ref) == DOMAIN d \ FullStates(ref)

\* C32: after initializeNetwork, for every list of declared specs, in any
\* order and with overlapping specs, the link list of each leaf counter holds
\* each aggregate counter whose spec the leaf state matches exactly once and
\* no other counter, and the link list of an aggregate counter is empty.
C32_LinkStructure ==
    \A i \in CallsOf("initializeNetwork") :
       LET d == trial.calls[i].result
           ref == trial.start.ref
       IN  /\ \A k \in LeafKeys(d, ref) :
                /\ \A a \in AggregateKeys(d, ref) :
                      Occurrences(d[k].linkedCounters, a)
                         = (IF Matches(k, a) THEN 1 ELSE 0)
                /\ \A j \in DOMAIN d[k].linkedCounters :
                      d[k].linkedCounters[j] \in AggregateKeys(d, ref)
           /\ \A a \in AggregateKeys(d, ref) : d[a].linkedCounters = <<>>

\* The nodes whose attributes match the spec P value by value.
NodesMatching(node, P) ==
    {n \in DOMAIN node : Matches(deduceNodeState(node[n]), P)}

\* C33: after initializeNetwork, for every domain of string values, each
\* leaf counter is the number of nodes whose state is that leaf state, each
\* aggregate counter is the number of nodes that match its spec, and so the
\* sum of the counters of the leaves that match it.
C33_InitialSeeding ==
    \A i \in CallsOf("initializeNetwork") :
       LET d == trial.calls[i].result
           ref == trial.start.ref
           node == trial.start.node
       IN  /\ \A k \in DOMAIN d :
                d[k].counter = Cardinality(NodesMatching(node, k))
           /\ \A a \in AggregateKeys(d, ref) :
                d[a].counter =
                   SetSum({k \in LeafKeys(d, ref) : Matches(k, a)},
                          [k \in LeafKeys(d, ref) |-> d[k].counter])


\* The state a node in state s is moved into by a rule with destination dSt.
MovedInto(s, dSt) ==
    {q \in s : q[1] \notin DOMAIN dSt} \cup deduceNodeState(dSt)

\* The concrete states a node is in, or can be moved into by a rule.
ConcreteStates ==
    {deduceNodeState(net[network].node[n]) : n \in DOMAIN net[network].node}
    \cup UNION { {MovedInto(s, process.nodeRules[s][j].dSt) :
                     j \in DOMAIN process.nodeRules[s]} :
                 s \in DOMAIN process.nodeRules }

\* A counter or influx update has failed on a missing key.
MissingKey == pc = "error" /\ ~EvalFailed

\* C34: before the first iteration every concrete state that a node is in or
\* can be moved into by a rule has an entry in state_count and in
\* state_influx, and no counter or influx update fails on a missing key.
C34_NoMissingCounter ==
    /\ pc = "configured" =>
          \A s \in ConcreteStates :
             /\ s \in DOMAIN StateCount(network)
             /\ s \in DOMAIN influx[network]
    /\ ~MissingKey


\* The node loop of the pass has come to its end.
NodesDone == pc \in {"network", "end"} /\ Runs(process.runNodeUpdate)

\* C35: execute() with iteration count N performs N passes and then ends,
\* never leaving the loop before; in a pass with node updates the rule is
\* invoked once for every node of the read network, never twice, and after
\* the node loop the write network has the nodes of the read network.
C35_EveryNodeOnce ==
    /\ pc # "error"
    /\ pc = "done" => it = iterations
    /\ pc = "nodes" =>
          \A n \in DOMAIN net[readNetwork].node :
             samples[n] = (IF n \in todo THEN 0 ELSE 1)
    /\ NodesDone =>
          /\ \A n \in DOMAIN net[readNetwork].node : samples[n] = 1
          /\ DOMAIN net[writeNetwork].node = DOMAIN net[readNetwork].node


\* ------------------------------------- a run of the timed process
\* The number of passes of a timed run.
MaxPasses == 3

TimedDomain ==
    << [att |-> "status", vals |-> <<"S", "I">>],
       [att |-> "age", vals |-> <<"y", "o">>] >>

\* A rule expression k * T(atts).
TExpr(k, atts) == [kind |-> "T", k |-> k, nn |-> <<>>, mf |-> {}, atts |-> atts]

\* Rule lists of a timed process: infection and a self-loop on the infected;
\* a destination of two attributes and a recovery at a rate that grows with
\* the time spent infected; a rule from every state that is a self-loop for
\* the young and a change for the old.
TimedRuleChoices ==
    { << [src |-> St("S"), dst |-> Dict("I"), rule |-> Param(1)],
         [src |-> St("I"), dst |-> Dict("I"), rule |-> Param(1)] >>,
      << [src |-> St("S"), dst |-> [a \in {"status", "age"} |->
                                       IF a = "status" THEN "I" ELSE "o"],
          rule |-> Param(1)],
         [src |-> St("I"), dst |-> Dict("S"),
          rule |-> TExpr(1, {<<"status", "I">>})] >>,
      << [src |-> {}, dst |-> [a \in {"age"} |-> "y"], rule |-> Param(1)] >> }

\* [MeanFieldStates] of a timed run: the infected of every age and the four
\* concrete states.
TimedMeanFields ==
    << {<<"status", Single("I")>>} >>
    \o [i \in 1..4 |->
          {<<"status", Single(IF i <= 2 THEN "S" ELSE "I")>>,
           <<"age", Single(IF i % 2 = 1 THEN "y" ELSE "o")>>}]

\* The attribute dictionary of bare strings that a key of a dictionary of
\* states stands for.
BareOf(k) == [a \in {q[1] : q \in k} |-> Bare(ValueOf(k, a))]

\* frozenset(x.iteritems()) == frozenset(y.iteritems()): the same attributes,
\* and for each of them values of the same hash that compare equal.
StateEqStamped(x, y) == x = y

StateEq(x, y) ==
    /\ DOMAIN x = DOMAIN y
    /\ \A a \in DOMAIN x : PyHash(x[a]) = PyHash(y[a]) /\ PyEq(x[a], y[a])

\* The key under which a dictionary of states finds the state of a node, or
\* the state itself when no key compares equal.
KeyFor(d, state) ==
    IF \E k \in DOMAIN d : StateEq(state, BareOf(k))
    THEN CHOOSE k \in DOMAIN d : StateEq(state, BareOf(k))
    ELSE {<<a, Single(state[a].value)>> : a \in DOMAIN state}

\* self.nodeRules.get(frozenset(node[-1].iteritems()), [])
TimedRulesOf(nodeRules, state) ==
    IF KeyFor(nodeRules, state) \in DOMAIN nodeRules
    THEN nodeRules[KeyFor(nodeRules, state)] ELSE <<>>

\* eval(rule, self.evalNS) for a parameter and for k * T(atts).
TimedValue(e, state, time) ==
    IF e.kind = "T"
    THEN LET t == T(state, time, e.atts)
         IN  [raised |-> t.raised, value |-> e.k * t.value]
    ELSE [raised |-> FALSE, value |-> e.k]

\* The loop over rList of ScriptedTimedProcess.nodeUpdateRule from rule i on.
RECURSIVE TimedScan(_, _, _, _, _, _, _)
TimedScan(rList, i, prob, sample, step, state, time) ==
    IF i > Len(rList) THEN [fired |-> 0, raised |-> FALSE]
    ELSE LET v == TimedValue(rList[i].rule, state, time)
             p == prob + v.value * step
         IN  IF v.raised THEN [fired |-> 0, raised |-> TRUE]
             ELSE IF Happens(sample, 1, p) THEN [fired |-> i, raised |-> FALSE]
             ELSE TimedScan(rList, i + 1, p, sample, step, state, time)

\* node[-1].update(dSt), then every attribute of dSt wrapped in a _TimedState
\* of the current time.
timedUpdateAfter(state, dSt, time, step) ==
    [a \in DOMAIN state \cup DOMAIN dSt |->
        IF a \in DOMAIN dSt THEN TimedState(dSt[a], time + step) ELSE state[a]]

timedUpdate(state, dSt, time, step) ==
    [a \in DOMAIN state \cup DOMAIN dSt |->
        IF a \in DOMAIN dSt THEN TimedState(dSt[a], time) ELSE state[a]]

\* _mapToTSS for one node: every bare string becomes a _TimedState of the
\* given time.
mapToTSS(state, time) ==
    [a \in DOMAIN state |->
        IF state[a].timed THEN state[a] ELSE TimedState(state[a].value, time)]

\* A timed run starts from a network that configure() has initialized at
\* time 0, or from a network of an earlier run, which has its own time and
\* time stamps; state_count and state_influx hold every state, or state_count
\* holds none and state_influx is empty.
InitTimedRun ==
    /\ NoSimulation
    /\ pc = "timedrun"
    /\ heap = [r \in {0, 1} |-> EmptyDict]
    /\ \E rl \in TimedRuleChoices, step \in TimeSteps, time \in {0, 1},
          s \in {"S", "I"}, g \in {"y", "o"}, declared \in BOOLEAN :
       \E t1 \in {t \in StampChoices : t <= time},
          t2 \in {t \in StampChoices : t <= time} :
          trial = [start |->
                     [rules |-> rl, dt |-> step, time |-> time,
                      node |-> [a \in {"status", "age"} |->
                                  IF a = "status" THEN
                                     (IF time = 0 THEN Bare(s) ELSE TimedState(s, t1))
                                  ELSE
                                     (IF time = 0 THEN Bare(g) ELSE TimedState(g, t2))],
                      meanFieldStates |-> IF declared THEN TimedMeanFields ELSE <<>>],
                   calls |-> <<>>]

\* ScriptedTimedProcess.initializeNetwork: the mean fields are counted and
\* the attribute values are given the time of the network.
ConfigureTimed ==
    /\ pc = "timedrun"
    /\ trial.calls = <<>>
    /\ LET in == trial.start
           values == << [a \in DOMAIN in.node |-> in.node[a].value] >>
           count == InitMeanFieldsOver(EmptyDict, in.meanFieldStates, values,
                                       TimedDomain)
       IN  Called([op |-> "configure", raised |-> FALSE, fired |-> FALSE,
                   dSt |-> <<>>, at |-> in.time, time |-> in.time,
                   before |-> in.node, node |-> mapToTSS(in.node, in.time),
                   count |-> count,
                   influx |-> [k \in DOMAIN count \cap FullStates(TimedDomain) |-> 0],
                   cnt |-> EmptyDict])
    /\ UNCHANGED << simVars, pc, heap >>

\* One pass of Simulation.execute over the node of a timed process.
TimedPass ==
    /\ pc = "timedrun"
    /\ trial.calls # <<>>
    /\ Len(trial.calls) <= MaxPasses
    /\ ~Now.raised
    /\ \E u \in Draws :
          LET in == trial.start
              nodeRules == createRuleDict(in.rules, TimedDomain)
              rList == TimedRulesOf(nodeRules, Now.node)
              scan == TimedScan(rList, 1, 0, u, in.dt, Now.node, Now.time)
              dSt == IF scan.fired = 0 THEN <<>> ELSE rList[scan.fired].dSt
              nc == IF scan.fired = 0 THEN Now.node
                    ELSE timedUpdate(Now.node, dSt, Now.time, in.dt)
              ch == CountChange(Now.count, Now.influx, EmptyDict,
                                KeyFor(Now.count, Now.node),
                                KeyFor(Now.count, nc))
              changed == ~scan.raised /\ ~StateEq(nc, Now.node)
          IN  Called([op |-> "pass",
                      raised |-> scan.raised \/ (changed /\ ch.error),
                      fired |-> scan.fired # 0, dSt |-> dSt,
                      at |-> Now.time,
                      time |-> IF scan.raised \/ (changed /\ ch.error)
                               THEN Now.time
                               ELSE advanceTime(Now.time, Now.time, in.dt),
                      before |-> Now.node,
                      node |-> IF scan.raised THEN Now.node ELSE nc,
                      count |-> IF changed THEN ch.count ELSE Now.count,
                      influx |-> IF changed THEN ch.flux ELSE Now.influx,
                      cnt |-> IF changed THEN ch.cnt ELSE EmptyDict])
    /\ UNCHANGED << simVars, pc, heap >>

NextTimedRun == ConfigureTimed \/ TimedPass

SpecTimedRun == InitTimedRun /\ [][NextTimedRun]_vars


\* In pass i a rule has fired for the node.
FiredIn(i) == trial.calls[i].op = "pass" /\ trial.calls[i].fired

\* From pass i up to the start of pass j attribute a is not assigned again.
KeptUntil(a, i, j) ==
    \A k \in i..(j - 1) : trial.calls[k].node[a] = trial.calls[i].node[a]

\* C36: when a rule fires in the iteration that starts at time t, every
\* attribute of its destination gets the time stamp t and every other
\* attribute keeps its time stamp; as long as the attribute is not assigned
\* again, the iteration m passes later starts at t + m*dt and T of the new
\* value is m*dt there.
C36_TimestampAssignment ==
    \A i \in CallsOf("pass") :
       LET c == trial.calls[i]
       IN  FiredIn(i) =>
             /\ \A a \in DOMAIN c.node :
                   c.node[a] = (IF a \in DOMAIN c.dSt
                                THEN TimedState(c.dSt[a], c.at)
                                ELSE c.before[a])
             /\ \A j \in CallsOf("pass") :
                   \A a \in DOMAIN c.dSt :
                      (j > i /\ KeptUntil(a, i, j)) =>
                         /\ trial.calls[j].at = c.at + (j - i) * trial.start.dt
                         /\ T(trial.calls[j].before, trial.calls[j].at,
                              {<<a, c.dSt[a]>>})
                               = [raised |-> FALSE, error |-> "",
                                  value |-> (j - i) * trial.start.dt]

\* A rule has fired, and two passes later an attribute of its destination
\* still has the value of that rule, next to an attribute that the rule did
\* not list.
C36_Witness ==
    \E i \in CallsOf("pass") :
       /\ FiredIn(i)
       /\ i + 2 \in CallsOf("pass")
       /\ DOMAIN trial.calls[i].dSt # DOMAIN trial.calls[i].node
       /\ \E a \in DOMAIN trial.calls[i].dSt : KeptUntil(a, i, i + 2)

\* The rule that has fired in pass i has the values of the node as its
\* destination.
SelfLoop(i) ==
    /\ FiredIn(i)
    /\ \A a \in DOMAIN trial.calls[i].dSt :
          trial.calls[i].dSt[a] = trial.calls[i].before[a].value

\* C37: when a rule fires whose destination values are the values the node
\* has, the listed attributes get the current time as their time stamp, the
\* concrete state stays, and no state counter, aggregate counter, influx
\* counter or transition count changes: the counters are those of a recount.
C37_SelfLoopRule ==
    \A i \in CallsOf("pass") :
       LET c == trial.calls[i]
           b == trial.calls[i - 1]
           state == {<<a, Single(c.node[a].value)>> : a \in DOMAIN c.node}
       IN  SelfLoop(i) =>
             /\ ~c.raised
             /\ \A a \in DOMAIN c.dSt : c.node[a].time = c.at
             /\ \A a \in DOMAIN c.node : c.node[a].value = c.before[a].value
             /\ c.count = b.count
             /\ c.influx = b.influx
             /\ c.cnt = EmptyDict
             /\ \A k \in DOMAIN c.count :
                   c.count[k].counter = (IF Matches(state, k) THEN 1 ELSE 0)

\* A self-loop rule has fired on a node whose time stamp was older, with the
\* states and the aggregate counted.
C37_Witness ==
    \E i \in CallsOf("pass") :
       /\ SelfLoop(i)
       /\ trial.calls[i].count # EmptyDict
       /\ \E a \in DOMAIN trial.calls[i].dSt :
             trial.calls[i].before[a].time < trial.calls[i].at


\* The step writes the list of samples k, and the sample it ends with then
\* has the time of Simulation.network.
StampedNow(k) ==
    stateSamples'[k] # stateSamples[k] =>
       stateSamples'[k][Len(stateSamples'[k])].Time = net'[network'].time

\* C38: the Time field of every recorded count or influx sample, the initial
\* sample of an execute() call included, is the Time attribute of
\* Simulation.network at the moment the sample is taken, also when execute()
\* is called more than once.
C38_SampleTimeStamps ==
    [][StampedNow("state_count") /\ StampedNow("state_influx")]_vars

====
